---- MODULE Spec2Model ----
(***************************************************************************)
(* Model of demos/interactive_face_detection_demo/cpp/detectors.cpp:       *)
(* one detector object (FaceDetection or one of the five face analytics    *)
(* stages), the inference request it owns, and the calls it makes on the   *)
(* inference engine.  The inference engine itself is the environment.      *)
(***************************************************************************)
EXTENDS Integers, Sequences, FiniteSets, TLC

VARIABLES
    detector,     \* the members of the BaseDetection subclass object
    model,        \* the network file pathToModel names, as ReadNetwork sees it
    inputBlob,    \* request input tensor: batch slot -> image written by matToBlob
    outputBlob,   \* request output tensor of the detection network (rows of floats)
    labelsBlob,   \* request labels tensor of the detection network (5-wide format)
    busy,         \* the request has an asynchronous run that has not completed
    lastBatch,    \* number of faces (frames) of the last run the request was given
    lastOp,       \* the member function called last
    lastArg,      \* its argument (batch index, face), 0 when it
                  \* has none
    lastErr,      \* how it ended: "none", an exception, or "crash"
    lastRet,      \* what it returned
    opCalls,      \* the inference engine calls it issued, in order
    opReads,      \* the output tensor elements it read: <<blob, position>>
    opWrites,     \* the input slots it wrote
    disabledLogs, \* number of "<topoName> DISABLED" lines logged so far
    resultsOfLastRun, \* the result list was decoded from the output of the run
                      \* submitted last
    acceptedFaces, \* face analytics stage: the faces enqueue has copied into the
                   \* input tensor since the last run, in the order of the calls
    _timers,      \* Timer::_timers: name -> CallStat
    finished,     \* for each stage name: the durations recorded by the successful
                  \* finish calls on it, the time of the last start or successful
                  \* finish on it, and whether that call was a finish that came
                  \* straight after another successful finish on the name
    now           \* std::chrono::steady_clock::now(), in clock ticks

vars == <<detector, model, inputBlob, outputBlob, labelsBlob, busy, lastBatch,
          lastOp, lastArg, lastErr, lastRet, opCalls, opReads, opWrites, disabledLogs,
          resultsOfLastRun, acceptedFaces, _timers, now, finished>>

\* The variables of the detector and of its request
detectorVars == <<detector, model, inputBlob, outputBlob, labelsBlob, busy, lastBatch,
                  opCalls, opReads, opWrites, disabledLogs, resultsOfLastRun, acceptedFaces>>

\* The variables of the Timer
timerVars == <<_timers, now, finished>>

-----------------------------------------------------------------------------
(* Bounds of the model *)

MaxBatch == 2        \* maxBatch is drawn from 1..MaxBatch
MaxProposals == 2    \* rows of the detection output tensor
NumFaces == 2        \* distinct images handed to enqueue
MaxConf == 1         \* confidences and thresholds are drawn from 0..MaxConf

Kinds == {"FD", "AG", "HP", "EM", "LM", "AS"}
Secondary == Kinds \ {"FD"}

TopoName(k) ==
    CASE k = "FD" -> "Face Detection"
      [] k = "AS" -> "Antispoofing"
      [] k = "AG" -> "Age/Gender Recognition"
      [] k = "HP" -> "Head Pose Estimation"
      [] k = "EM" -> "Emotions Recognition"
      [] k = "LM" -> "Facial Landmarks Estimation"

\* The dynamic type of the detector object
KindOf(d) == d.kind

Min(a, b) == IF a < b THEN a ELSE b
Max(a, b) == IF a > b THEN a ELSE b

\* static_cast<int> of the real n/d (d > 0): truncation toward zero
Trunc(n, d) == IF n >= 0 THEN n \div d ELSE -((-n) \div d)
\* std::floor of the real n/d (d > 0)
Floor(n, d) == n \div d
\* C++ integer division by a positive divisor
CDiv(n, d) == Trunc(n, d)

-----------------------------------------------------------------------------
(* Network files.  ins and outs are the InputsDataMap and OutputsDataMap,  *)
(* listed in key order as std::map iterates them.                          *)

Out(name, dims, prec) == [name |-> name, dims |-> dims, prec |-> prec]
Net(ins, outs) == [ins |-> ins, outs |-> outs]

FDModels == {
    Net(<<"data">>, <<Out("detection_out", <<1, 1, MaxProposals, 7>>, "FP32")>>),
    Net(<<"data">>, <<Out("detection_out", <<1, 1, MaxProposals, 5>>, "FP32")>>),
    Net(<<"data">>, <<Out("detection_out", <<MaxProposals, 7>>, "FP32")>>),
    Net(<<"data">>, <<Out("detection_out", <<1, 1, 1, 7, 7>>, "FP32")>>),
    Net(<<"data">>, <<Out("boxes", <<MaxProposals, 5>>, "FP32"),
                      Out("labels", <<MaxProposals>>, "I32")>>),
    Net(<<"data">>, <<Out("boxes", <<MaxProposals, 5>>, "FP32"),
                      Out("scores", <<MaxProposals>>, "FP32")>>),
    Net(<<"data">>, <<Out("labels", <<MaxProposals>>, "I32"),
                      Out("masks", <<MaxProposals, 4>>, "FP32")>>),
    Net(<<"data">>, <<Out("boxes", <<MaxProposals, 5>>, "FP32"),
                      Out("labels", <<MaxProposals>>, "I32"),
                      Out("masks", <<MaxProposals, 4>>, "FP32")>>),
    Net(<<"data">>, <<>>),
    Net(<<>>, <<Out("detection_out", <<1, 1, MaxProposals, 7>>, "FP32")>>),
    Net(<<"data", "im_info">>, <<Out("detection_out", <<1, 1, MaxProposals, 7>>, "FP32")>>) }

AGModels == {
    Net(<<"data">>, <<Out("age_conv3", <<1, 1>>, "FP32"), Out("prob", <<1, 2>>, "FP32")>>),
    Net(<<"data">>, <<Out("prob", <<1, 2>>, "FP32")>>),
    Net(<<"data">>, <<Out("age_conv3", <<1, 1>>, "FP32"), Out("prob", <<1, 2>>, "FP32"),
                      Out("race", <<1, 3>>, "FP32")>>),
    Net(<<>>, <<Out("age_conv3", <<1, 1>>, "FP32"), Out("prob", <<1, 2>>, "FP32")>>),
    Net(<<"data", "mask">>, <<Out("age_conv3", <<1, 1>>, "FP32"), Out("prob", <<1, 2>>, "FP32")>>) }

HPModels == {
    Net(<<"data">>, <<Out("angle_p_fc", <<1, 1>>, "FP32"), Out("angle_r_fc", <<1, 1>>, "FP32"),
                      Out("angle_y_fc", <<1, 1>>, "FP32")>>),
    Net(<<"data">>, <<Out("angle_p_fc", <<1, 1>>, "FP32"), Out("angle_y_fc", <<1, 1>>, "FP32")>>),
    Net(<<"data">>, <<Out("angle_p_fc", <<1, 1>>, "FP32"), Out("angle_r_fc", <<1, 1>>, "FP32"),
                      Out("angle_y_fc", <<1, 1>>, "FP32"), Out("extra", <<1, 1>>, "FP32")>>),
    Net(<<"data">>, <<>>),
    Net(<<>>, <<Out("angle_p_fc", <<1, 1>>, "FP32"), Out("angle_r_fc", <<1, 1>>, "FP32"),
                Out("angle_y_fc", <<1, 1>>, "FP32")>>),
    Net(<<"data", "mask">>, <<Out("angle_p_fc", <<1, 1>>, "FP32"), Out("angle_r_fc", <<1, 1>>, "FP32"),
                              Out("angle_y_fc", <<1, 1>>, "FP32")>>) }

EMModels == {
    Net(<<"data">>, <<Out("prob_emotion", <<1, 5, 1, 1>>, "FP32")>>),
    Net(<<"data">>, <<Out("prob_emotion", <<1, 7, 1, 1>>, "FP32")>>),
    Net(<<"data">>, <<Out("prob_emotion", <<5>>, "FP32")>>),
    Net(<<"data">>, <<>>),
    Net(<<"data">>, <<Out("prob_emotion", <<1, 5, 1, 1>>, "FP32"), Out("zz", <<1, 1>>, "FP32")>>),
    Net(<<>>, <<Out("prob_emotion", <<1, 5, 1, 1>>, "FP32")>>),
    Net(<<"data", "mask">>, <<Out("prob_emotion", <<1, 5, 1, 1>>, "FP32")>>) }

LMModels == {
    Net(<<"data">>, <<Out("align_fc3", <<1, 70>>, "FP32")>>),
    Net(<<"data">>, <<Out("align_fc3", <<1, 10>>, "FP32")>>),
    Net(<<"data">>, <<Out("align_fc3", <<1, 5>>, "FP32")>>),
    Net(<<"data">>, <<Out("align_fc3", <<1, 70, 1, 1>>, "FP32")>>),
    Net(<<"data">>, <<Out("align_fc3", <<1, 10, 1, 1>>, "FP32")>>),
    Net(<<"data">>, <<Out("landmarks", <<1, 70>>, "FP32")>>),
    Net(<<"data">>, <<Out("align_fc3", <<1, 70>>, "FP32"), Out("zz", <<1, 1>>, "FP32")>>),
    Net(<<"data">>, <<Out("aa", <<1, 1>>, "FP32"), Out("align_fc3", <<1, 70>>, "FP32")>>),
    Net(<<"data">>, <<>>),
    Net(<<>>, <<Out("align_fc3", <<1, 70>>, "FP32")>>),
    Net(<<"data", "mask">>, <<Out("align_fc3", <<1, 70>>, "FP32")>>) }

ASModels == {
    Net(<<"data">>, <<Out("prob", <<1, 2>>, "FP32")>>),
    Net(<<"data">>, <<>>),
    Net(<<"data">>, <<Out("prob", <<1, 2>>, "FP32"), Out("zz", <<1, 1>>, "FP32")>>),
    Net(<<>>, <<Out("prob", <<1, 2>>, "FP32")>>),
    Net(<<"data", "mask">>, <<Out("prob", <<1, 2>>, "FP32")>>) }

ModelsOf(k) ==
    CASE k = "FD" -> FDModels
      [] k = "AG" -> AGModels
      [] k = "HP" -> HPModels
      [] k = "EM" -> EMModels
      [] k = "LM" -> LMModels
      [] k = "AS" -> ASModels

\* Dimensions of the one input of the detection network, [N, C, H, W]
InputDims == <<1, 3, 4, 4>>

\* Values an out-of-bounds read of a std::vector<size_t> may yield
Garbage == {0, 7}

-----------------------------------------------------------------------------
(* Construction *)

NoNet == [loaded |-> FALSE, dynBatch |-> FALSE]

\* BaseDetection::BaseDetection and the subclass constructors: every counter is
\* zero, the request is null, the network is not loaded, no tensor name is known
\* except the fixed ones of Head Pose and Facial Landmarks.
NewDetector(k, path, maxBatch, isBatchDynamic, isAsync, raw, threshold) ==
    [ kind |-> k,
      topoName |-> TopoName(k),
      pathToModel |-> path,
      maxBatch |-> maxBatch,
      isBatchDynamic |-> isBatchDynamic,
      isAsync |-> isAsync,
      enablingChecked |-> FALSE,
      _enabled |-> FALSE,
      doRawOutputMessages |-> raw,
      net |-> NoNet,
      request |-> "nullptr",
      input |-> "",
      output |-> "",
      labels_output |-> "",
      outputAge |-> "",
      outputGender |-> "",
      outputAngleR |-> IF k = "HP" THEN "angle_r_fc" ELSE "",
      outputAngleP |-> IF k = "HP" THEN "angle_p_fc" ELSE "",
      outputAngleY |-> IF k = "HP" THEN "angle_y_fc" ELSE "",
      outputEmotions |-> "",
      outputFacialLandmarksBlobName |-> IF k = "LM" THEN "align_fc3" ELSE "",
      prob_output |-> "",
      detectionThreshold |-> threshold,
      maxProposalCount |-> 0,
      objectSize |-> 0,
      enquedFrames |-> 0,
      enquedFaces |-> 0,
      width |-> 0,
      height |-> 0,
      network_input_width |-> 0,
      network_input_height |-> 0,
      bb_enlarge_coefficient |-> 12,   \* in tenths: 1.2
      bb_dx_coefficient |-> 10,        \* in tenths: 1.0
      bb_dy_coefficient |-> 10,        \* in tenths: 1.0
      resultsFetched |-> FALSE,
      results |-> <<>> ]

-----------------------------------------------------------------------------
(* BaseDetection::enabled *)

\* Mutant: the check is never marked as done.
enabled_NoCache(d) ==
    IF ~d.enablingChecked
    THEN [ d |-> [d EXCEPT !._enabled = (d.pathToModel # "")],
           ret |-> (d.pathToModel # ""),
           logs |-> IF d.pathToModel = "" THEN 1 ELSE 0 ]
    ELSE [ d |-> d, ret |-> d._enabled, logs |-> 0 ]

\* The first call computes _enabled from pathToModel, logs "DISABLED" when the
\* path is empty and sets enablingChecked; later calls return the cached value.
enabled(d) ==
    IF ~d.enablingChecked
    THEN [ d |-> [d EXCEPT !._enabled = (d.pathToModel # ""), !.enablingChecked = TRUE],
           ret |-> (d.pathToModel # ""),
           logs |-> IF d.pathToModel = "" THEN 1 ELSE 0 ]
    ELSE [ d |-> d, ret |-> d._enabled, logs |-> 0 ]

-----------------------------------------------------------------------------
(* read: load the network file and validate its inputs and outputs *)

\* What a read that has undefined behaviour may do: abort, or go on with the
\* values a and b (and the name nm) found in memory.
UBChoices ==
    [crash : {FALSE}, a : Garbage, b : Garbage, nm : {"align_fc3", "?"}]
        \cup {[crash |-> TRUE, a |-> 0, b |-> 0, nm |-> "?"]}

\* The one choice of a step that has no undefined behaviour
NoUB == [crash |-> FALSE, a |-> 0, b |-> 0, nm |-> "?"]

\* What a step does whose only undefined behaviour is a read through a null
\* pointer or outside a tensor: abort, or go on
CrashChoices == {NoUB, [NoUB EXCEPT !.crash = TRUE]}

ReadResult(d, err, calls) == [d |-> d, err |-> err, calls |-> calls]

ReadCalls == <<"ReadNetwork", "setBatchSize">>

\* outputDims[i] (i counted from 0) of a std::vector: past the end it is whatever
\* the memory holds
DimAt(dims, i, garbage) == IF i < Len(dims) THEN dims[i + 1] ELSE garbage

Back(dims) == dims[Len(dims)]

\* The loop of FaceDetection::read over several outputs, from output i on
RECURSIVE ScanOutputs(_, _, _)
ScanOutputs(d, outs, i) ==
    IF i > Len(outs) THEN d
    ELSE LET o == outs[i] IN
         IF Len(o.dims) = 2 /\ Back(o.dims) = 5
         THEN ScanOutputs([d EXCEPT !.output = o.name,
                                    !.maxProposalCount = o.dims[1],
                                    !.objectSize = Back(o.dims)], outs, i + 1)
         ELSE IF Len(o.dims) = 1 /\ o.prec = "I32"
         THEN ScanOutputs([d EXCEPT !.labels_output = o.name], outs, i + 1)
         ELSE ScanOutputs(d, outs, i + 1)

FaceDetection_read(d, m, g) ==
    IF Len(m.ins) # 1 THEN ReadResult(d, "logic_error", ReadCalls)
    ELSE LET d1 == [d EXCEPT !.network_input_height = InputDims[3],
                             !.network_input_width = InputDims[4]] IN
         IF Len(m.outs) = 1
         THEN LET o == m.outs[1] IN
              \* outputDims[2] and outputDims[3] are read before the rank is checked
              IF Len(o.dims) < 4 /\ g.crash
              THEN ReadResult([d1 EXCEPT !.output = o.name], "crash", ReadCalls)
              ELSE LET d2 == [d1 EXCEPT !.output = o.name,
                                        !.maxProposalCount = DimAt(o.dims, 2, g.a),
                                        !.objectSize = DimAt(o.dims, 3, g.b)] IN
                   IF d2.objectSize # 7 THEN ReadResult(d2, "logic_error", ReadCalls)
                   ELSE IF Len(o.dims) # 4 THEN ReadResult(d2, "logic_error", ReadCalls)
                   ELSE ReadResult([d2 EXCEPT !.input = m.ins[1]], "none", ReadCalls)
         ELSE LET d2 == ScanOutputs(d1, m.outs, 1) IN
              IF d2.output = "" \/ d2.labels_output = ""
              THEN ReadResult(d2, "logic_error", ReadCalls)
              ELSE ReadResult([d2 EXCEPT !.input = m.ins[1]], "none", ReadCalls)

AntispoofingClassifier_read(d, m, g) ==
    IF Len(m.ins) # 1 THEN ReadResult(d, "logic_error", ReadCalls)
    ELSE LET d1 == [d EXCEPT !.input = m.ins[1]] IN
         IF Len(m.outs) # 1 THEN ReadResult(d1, "logic_error", ReadCalls)
         ELSE ReadResult([d1 EXCEPT !.prob_output = m.outs[1].name, !._enabled = TRUE],
                         "none", ReadCalls)

AgeGenderDetection_read(d, m, g) ==
    IF Len(m.ins) # 1 THEN ReadResult(d, "logic_error", ReadCalls)
    ELSE LET d1 == [d EXCEPT !.input = m.ins[1]] IN
         IF Len(m.outs) # 2 THEN ReadResult(d1, "logic_error", ReadCalls)
         ELSE ReadResult([d1 EXCEPT !.outputAge = m.outs[1].name,
                                    !.outputGender = m.outs[2].name,
                                    !._enabled = TRUE], "none", ReadCalls)

HasOutput(m, name) == \E i \in 1..Len(m.outs) : m.outs[i].name = name

HeadPoseDetection_read(d, m, g) ==
    IF Len(m.ins) # 1 THEN ReadResult(d, "logic_error", ReadCalls)
    ELSE LET d1 == [d EXCEPT !.input = m.ins[1]] IN
         IF \E n \in {d.outputAngleR, d.outputAngleP, d.outputAngleY} : ~HasOutput(m, n)
         THEN ReadResult(d1, "logic_error", ReadCalls)
         ELSE ReadResult([d1 EXCEPT !._enabled = TRUE], "none", ReadCalls)

EmotionsDetection_read(d, m, g) ==
    IF Len(m.ins) # 1 THEN ReadResult(d, "logic_error", ReadCalls)
    ELSE LET d1 == [d EXCEPT !.input = m.ins[1]] IN
         IF Len(m.outs) # 1 THEN ReadResult(d1, "logic_error", ReadCalls)
         ELSE ReadResult([d1 EXCEPT !.outputEmotions = m.outs[1].name, !._enabled = TRUE],
                         "none", ReadCalls)

\* outputInfo.begin() of FacialLandmarksDetection::read: the first output in key
\* order; with no output at all it is the end iterator, whose contents are
\* whatever the memory holds
FirstOutput(m, g) ==
    IF Len(m.outs) > 0 THEN m.outs[1] ELSE Out(g.nm, <<g.a, g.b>>, "FP32")

FacialLandmarksDetection_read(d, m, g) ==
    IF Len(m.ins) # 1 THEN ReadResult(d, "logic_error", ReadCalls)
    ELSE LET d1 == [d EXCEPT !.input = m.ins[1]]
             o == FirstOutput(m, g) IN
         IF Len(m.outs) = 0 /\ g.crash THEN ReadResult(d1, "crash", ReadCalls)
         ELSE IF o.name # d.outputFacialLandmarksBlobName
         THEN ReadResult(d1, "logic_error", ReadCalls)
         \* the two conditions are joined by &&: only an output wrong in both is refused
         ELSE IF Len(o.dims) # 2 /\ Back(o.dims) # 70
         THEN ReadResult(d1, "logic_error", ReadCalls)
         ELSE ReadResult([d1 EXCEPT !._enabled = TRUE], "none", ReadCalls)

\* The virtual call detector.read(ie)
read(d, m, g) ==
    CASE KindOf(d) = "FD" -> FaceDetection_read(d, m, g)
      [] KindOf(d) = "AS" -> AntispoofingClassifier_read(d, m, g)
      [] KindOf(d) = "AG" -> AgeGenderDetection_read(d, m, g)
      [] KindOf(d) = "HP" -> HeadPoseDetection_read(d, m, g)
      [] KindOf(d) = "EM" -> EmotionsDetection_read(d, m, g)
      [] KindOf(d) = "LM" -> FacialLandmarksDetection_read(d, m, g)

-----------------------------------------------------------------------------
(* Load::into *)

Devices == { <<"C", "P", "U">>, <<"G", "P", "U">>, <<"M", "Y", "R", "I", "A", "D">>,
             <<"H", "E", "T", "E", "R", "O", ":", "F", "P", "G", "A", ",", "C", "P", "U">> }

\* deviceName.find(sub) != std::string::npos
Contains(s, sub) ==
    \E i \in 1..(Len(s) - Len(sub) + 1) : SubSeq(s, i, i + Len(sub) - 1) = sub

isPossibleDynBatch(deviceName) ==
    Contains(deviceName, <<"C", "P", "U">>) \/ Contains(deviceName, <<"G", "P", "U">>)

\* Mutant: the network is loaded before it is validated.
Load_into_LoadFirst(d, m, deviceName, enable_dynamic_batch, g) ==
    LET e == enabled(d) IN
    IF e.ret
    THEN LET r == read(e.d, m, g)
             dyn == enable_dynamic_batch /\ isPossibleDynBatch(deviceName) IN
         [ d |-> [r.d EXCEPT !.net = [loaded |-> TRUE, dynBatch |-> dyn]],
           err |-> r.err, calls |-> <<"LoadNetwork">> \o r.calls, logs |-> e.logs ]
    ELSE [ d |-> e.d, err |-> "none", calls |-> <<>>, logs |-> e.logs ]

\* detector.net = ie.LoadNetwork(detector.read(ie), deviceName, config): read
\* runs first, and when it throws the network member is not assigned.
Load_into(d, m, deviceName, enable_dynamic_batch, g) ==
    LET e == enabled(d) IN
    IF e.ret
    THEN LET r == read(e.d, m, g)
             dyn == enable_dynamic_batch /\ isPossibleDynBatch(deviceName) IN
         IF r.err = "none"
         THEN [ d |-> [r.d EXCEPT !.net = [loaded |-> TRUE, dynBatch |-> dyn]],
                err |-> "none", calls |-> r.calls \o <<"LoadNetwork">>, logs |-> e.logs ]
         ELSE [ d |-> r.d, err |-> r.err, calls |-> r.calls, logs |-> e.logs ]
    ELSE [ d |-> e.d, err |-> "none", calls |-> <<>>, logs |-> e.logs ]

-----------------------------------------------------------------------------
(* The inference request, as the detector uses it *)

\* cv::Mat handed to enqueue: image i
Mat(i) == [id |-> i, cols |-> 4 * i, rows |-> 4]

RECURSIVE Prod(_)
Prod(s) == IF s = <<>> THEN 1 ELSE Head(s) * Prod(Tail(s))

\* Number of elements of the request's tensor for output o once the batch
\* dimension was set to maxBatch by network.setBatchSize(maxBatch)
BlobSize(d, o) == d.maxBatch * Prod(Tail(o.dims))

OutputNamed(m, name) == CHOOSE o \in {m.outs[i] : i \in 1..Len(m.outs)} : o.name = name

\* Result of a member function: the detector after it, how it ended, the
\* engine calls issued, the log lines and what it did to the request
Done(d, err, calls) ==
    [ d |-> d, err |-> err, calls |-> calls, logs |-> 0,
      run |-> "no", write |-> <<>>, create |-> FALSE, reads |-> <<>> ]

WithLogs(r, e) == [r EXCEPT !.logs = r.logs + e.logs]

-----------------------------------------------------------------------------
(* submitRequest *)

BaseDetection_submitRequest(d) ==
    LET e == enabled(d) IN
    IF ~e.ret \/ e.d.request = "nullptr" THEN WithLogs(Done(e.d, "none", <<>>), e)
    ELSE IF d.isAsync
    THEN WithLogs([Done(e.d, "none", <<"StartAsync">>) EXCEPT !.run = "async"], e)
    ELSE WithLogs([Done(e.d, "none", <<"Infer">>) EXCEPT !.run = "sync"], e)

\* Mutant: the result list is not cleared.
FaceDetection_submitRequest_NoClear(d) ==
    IF d.enquedFrames = 0 THEN Done(d, "none", <<>>)
    ELSE BaseDetection_submitRequest(
             [d EXCEPT !.enquedFrames = 0, !.resultsFetched = FALSE])

FaceDetection_submitRequest(d) ==
    IF d.enquedFrames = 0 THEN Done(d, "none", <<>>)
    ELSE BaseDetection_submitRequest(
             [d EXCEPT !.enquedFrames = 0, !.resultsFetched = FALSE, !.results = <<>>])

\* request->SetBatch(n), as the engine sees it
SetBatchCall(n) == "SetBatch(" \o ToString(n) \o ")"

\* Mutant: the count is not reset after the run.
Secondary_submitRequest_NoReset(d) ==
    IF d.enquedFaces = 0 THEN Done(d, "none", <<>>)
    ELSE IF d.isBatchDynamic /\ d.request = "nullptr" THEN Done(d, "crash", <<>>)
    ELSE LET pre == IF d.isBatchDynamic THEN <<SetBatchCall(d.enquedFaces)>> ELSE <<>>
             b == BaseDetection_submitRequest(d) IN
         [b EXCEPT !.calls = pre \o b.calls]

\* Mutant: the batch is resized to maxBatch, after the run.
Secondary_submitRequest_ResizeLate(d) ==
    IF d.enquedFaces = 0 THEN Done(d, "none", <<>>)
    ELSE IF d.isBatchDynamic /\ d.request = "nullptr" THEN Done(d, "crash", <<>>)
    ELSE LET post == IF d.isBatchDynamic THEN <<SetBatchCall(d.maxBatch)>> ELSE <<>>
             b == BaseDetection_submitRequest(d) IN
         [b EXCEPT !.calls = b.calls \o post, !.d.enquedFaces = 0]

\* AntispoofingClassifier, AgeGenderDetection, HeadPoseDetection, EmotionsDetection
\* and FacialLandmarksDetection::submitRequest are the same text.
Secondary_submitRequest(d) ==
    IF d.enquedFaces = 0 THEN Done(d, "none", <<>>)
    \* request->SetBatch through a null request
    ELSE IF d.isBatchDynamic /\ d.request = "nullptr" THEN Done(d, "crash", <<>>)
    ELSE LET pre == IF d.isBatchDynamic THEN <<SetBatchCall(d.enquedFaces)>> ELSE <<>>
             b == BaseDetection_submitRequest(d) IN
         [b EXCEPT !.calls = pre \o b.calls, !.d.enquedFaces = 0]

submitRequest(d) ==
    IF KindOf(d) = "FD" THEN FaceDetection_submitRequest(d) ELSE Secondary_submitRequest(d)

-----------------------------------------------------------------------------
(* wait *)

\* Mutant: a synchronous stage waits too.
BaseDetection_wait_NoAsyncTest(d) ==
    LET e == enabled(d) IN
    IF ~e.ret \/ e.d.request = "nullptr" THEN WithLogs(Done(e.d, "none", <<>>), e)
    ELSE WithLogs(Done(e.d, "none", <<"Wait">>), e)

BaseDetection_wait(d) ==
    LET e == enabled(d) IN
    IF ~e.ret \/ e.d.request = "nullptr" \/ ~d.isAsync THEN WithLogs(Done(e.d, "none", <<>>), e)
    ELSE WithLogs(Done(e.d, "none", <<"Wait">>), e)

-----------------------------------------------------------------------------
(* enqueue *)

\* request = std::make_shared<InferRequest>(net.CreateInferRequest()) when the
\* request is null, then request->GetBlob(input).  CreateInferRequest on a
\* network that was never loaded throws, and the request stays null.
\* Returns the calls issued and whether the blob was obtained.
GetInputBlob(d) ==
    IF d.request # "nullptr" THEN [ok |-> TRUE, calls |-> <<"GetBlob">>, create |-> FALSE]
    ELSE IF ~d.net.loaded THEN [ok |-> FALSE, calls |-> <<"CreateInferRequest">>, create |-> FALSE]
    ELSE [ok |-> TRUE, calls |-> <<"CreateInferRequest", "GetBlob">>, create |-> TRUE]

\* Mutant: frames are counted.
FaceDetection_enqueue_Counting(d, frame) ==
    LET e == enabled(d) IN
    IF ~e.ret THEN WithLogs(Done(e.d, "none", <<>>), e)
    ELSE LET b == GetInputBlob(e.d) IN
         IF ~b.ok THEN WithLogs(Done(e.d, "ie_exception", b.calls), e)
         ELSE WithLogs(
                [Done([e.d EXCEPT !.request = "request",
                                  !.width = frame.cols, !.height = frame.rows,
                                  !.enquedFrames = Min(e.d.enquedFrames + 1, MaxBatch)],
                      "none", b.calls)
                   EXCEPT !.write = <<0, frame.id>>, !.create = b.create], e)

FaceDetection_enqueue(d, frame) ==
    LET e == enabled(d) IN
    IF ~e.ret THEN WithLogs(Done(e.d, "none", <<>>), e)
    ELSE LET b == GetInputBlob(e.d) IN
         IF ~b.ok THEN WithLogs(Done(e.d, "ie_exception", b.calls), e)
         ELSE WithLogs(
                [Done([e.d EXCEPT !.request = "request",
                                  !.width = frame.cols, !.height = frame.rows,
                                  !.enquedFrames = 1], "none", b.calls)
                   EXCEPT !.write = <<0, frame.id>>, !.create = b.create], e)

\* Mutant: a full batch is not refused.
Secondary_enqueue_NoLimit(d, face) ==
    LET e == enabled(d) IN
    IF ~e.ret THEN WithLogs(Done(e.d, "none", <<>>), e)
    ELSE LET b == GetInputBlob(e.d) IN
         IF ~b.ok THEN WithLogs(Done(e.d, "ie_exception", b.calls), e)
         ELSE WithLogs(
                [Done([e.d EXCEPT !.request = "request",
                                  !.enquedFaces = e.d.enquedFaces + 1], "none", b.calls)
                   EXCEPT !.write = <<e.d.enquedFaces, face.id>>, !.create = b.create], e)

\* Mutant: the slots are filled from the last one down.
Secondary_enqueue_Reversed(d, face) ==
    LET e == enabled(d) IN
    IF ~e.ret THEN WithLogs(Done(e.d, "none", <<>>), e)
    ELSE IF e.d.enquedFaces = e.d.maxBatch THEN WithLogs(Done(e.d, "none", <<>>), e)
    ELSE LET b == GetInputBlob(e.d) IN
         IF ~b.ok THEN WithLogs(Done(e.d, "ie_exception", b.calls), e)
         ELSE WithLogs(
                [Done([e.d EXCEPT !.request = "request",
                                  !.enquedFaces = e.d.enquedFaces + 1], "none", b.calls)
                   EXCEPT !.write = <<e.d.maxBatch - 1 - e.d.enquedFaces, face.id>>,
                          !.create = b.create], e)

\* The five enqueue functions of the face analytics stages are the same text
\* (the warning text apart).
Secondary_enqueue(d, face) ==
    LET e == enabled(d) IN
    IF ~e.ret THEN WithLogs(Done(e.d, "none", <<>>), e)
    ELSE IF e.d.enquedFaces = e.d.maxBatch THEN WithLogs(Done(e.d, "none", <<>>), e)
    ELSE LET b == GetInputBlob(e.d) IN
         IF ~b.ok THEN WithLogs(Done(e.d, "ie_exception", b.calls), e)
         ELSE WithLogs(
                [Done([e.d EXCEPT !.request = "request",
                                  !.enquedFaces = e.d.enquedFaces + 1], "none", b.calls)
                   EXCEPT !.write = <<e.d.enquedFaces, face.id>>, !.create = b.create], e)

enqueue(d, img) ==
    IF KindOf(d) = "FD" THEN FaceDetection_enqueue(d, img) ELSE Secondary_enqueue(d, img)

-----------------------------------------------------------------------------
(* FaceDetection::fetchResults *)

\* Confidences and thresholds are whole numbers of one unit; a float compared
\* with the double threshold is compared exactly.  Coordinates of the 7-wide
\* format are stored in quarters of the frame (v stands for v/4); coordinates of
\* the 5-wide format are pixels of the network input.  The coefficients are in
\* tenths.  The arithmetic is exact (no float rounding).

\* Mutant: the box is clamped to the frame.
EnlargeBox_Clamped(d, x, y, w, h) ==
    LET bb_center_x == x + CDiv(w, 2)
        bb_center_y == y + CDiv(h, 2)
        max_of_sizes == Max(w, h)
        bb_new_width == Trunc(d.bb_enlarge_coefficient * max_of_sizes, 10)
        bb_new_height == Trunc(d.bb_enlarge_coefficient * max_of_sizes, 10)
    IN [ x |-> Max(0, bb_center_x - Floor(d.bb_dx_coefficient * bb_new_width, 20)),
         y |-> Max(0, bb_center_y - Floor(d.bb_dy_coefficient * bb_new_height, 20)),
         width |-> Min(d.width, bb_new_width),
         height |-> Min(d.height, bb_new_height) ]

\* "Make square and enlarge face bounding box": from the denormalized box
EnlargeBox(d, x, y, w, h) ==
    LET bb_center_x == x + CDiv(w, 2)
        bb_center_y == y + CDiv(h, 2)
        max_of_sizes == Max(w, h)
        bb_new_width == Trunc(d.bb_enlarge_coefficient * max_of_sizes, 10)
        bb_new_height == Trunc(d.bb_enlarge_coefficient * max_of_sizes, 10)
    IN [ x |-> bb_center_x - Floor(d.bb_dx_coefficient * bb_new_width, 20),
         y |-> bb_center_y - Floor(d.bb_dy_coefficient * bb_new_height, 20),
         width |-> bb_new_width,
         height |-> bb_new_height ]

\* Mutant: a proposal at the threshold is kept.
Emits_AtThreshold(d, confidence) == confidence >= d.detectionThreshold

\* The last test of both loops: if (r.confidence > detectionThreshold) push_back
Emits(d, confidence) == confidence > d.detectionThreshold

\* Element pos (from 0) of a mapped tensor
At(blob, pos) == blob[pos + 1]

\* The loop over the 5-wide rows, from row i on; acc is the result list so far
RECURSIVE Loop5(_, _, _, _, _)
Loop5(d, detections, labels, i, acc) ==
    IF ~(i < d.maxProposalCount /\ d.objectSize = 5) THEN acc
    ELSE LET confidence == At(detections, i * d.objectSize + 4) IN
         IF confidence <= d.detectionThreshold /\ ~d.doRawOutputMessages
         THEN Loop5(d, detections, labels, i + 1, acc)
         ELSE LET x == Trunc(At(detections, i * d.objectSize + 0) * d.width, d.network_input_width)
                  y == Trunc(At(detections, i * d.objectSize + 1) * d.height, d.network_input_height)
                  w == Trunc(At(detections, i * d.objectSize + 2) * d.width
                                 - x * d.network_input_width, d.network_input_width)
                  h == Trunc(At(detections, i * d.objectSize + 3) * d.height
                                 - y * d.network_input_height, d.network_input_height)
                  r == [ label |-> At(labels, i), confidence |-> confidence,
                         location |-> EnlargeBox(d, x, y, w, h), row |-> i ]
              IN Loop5(d, detections, labels, i + 1,
                       IF Emits(d, confidence) THEN Append(acc, r) ELSE acc)

\* Mutant: a row with a negative image_id is skipped, the loop goes on.
RECURSIVE Loop7_SkipSentinel(_, _, _, _)
Loop7_SkipSentinel(d, detections, i, acc) ==
    IF ~(i < d.maxProposalCount /\ d.objectSize = 7) THEN acc
    ELSE IF At(detections, i * d.objectSize + 0) < 0
    THEN Loop7_SkipSentinel(d, detections, i + 1, acc)
    ELSE LET confidence == At(detections, i * d.objectSize + 2) IN
         IF confidence <= d.detectionThreshold /\ ~d.doRawOutputMessages
         THEN Loop7_SkipSentinel(d, detections, i + 1, acc)
         ELSE LET x == Trunc(At(detections, i * d.objectSize + 3) * d.width, 4)
                  y == Trunc(At(detections, i * d.objectSize + 4) * d.height, 4)
                  w == Trunc(At(detections, i * d.objectSize + 5) * d.width - x * 4, 4)
                  h == Trunc(At(detections, i * d.objectSize + 6) * d.height - y * 4, 4)
                  r == [ label |-> At(detections, i * d.objectSize + 1),
                         confidence |-> confidence,
                         location |-> EnlargeBox(d, x, y, w, h), row |-> i ]
              IN Loop7_SkipSentinel(d, detections, i + 1,
                       IF Emits(d, confidence) THEN Append(acc, r) ELSE acc)

\* Mutant: a detection is put at the front of the list.
RECURSIVE Loop7_Prepending(_, _, _, _)
Loop7_Prepending(d, detections, i, acc) ==
    IF ~(i < d.maxProposalCount /\ d.objectSize = 7) THEN acc
    ELSE IF At(detections, i * d.objectSize + 0) < 0 THEN acc
    ELSE LET confidence == At(detections, i * d.objectSize + 2) IN
         IF confidence <= d.detectionThreshold /\ ~d.doRawOutputMessages
         THEN Loop7_Prepending(d, detections, i + 1, acc)
         ELSE LET x == Trunc(At(detections, i * d.objectSize + 3) * d.width, 4)
                  y == Trunc(At(detections, i * d.objectSize + 4) * d.height, 4)
                  w == Trunc(At(detections, i * d.objectSize + 5) * d.width - x * 4, 4)
                  h == Trunc(At(detections, i * d.objectSize + 6) * d.height - y * 4, 4)
                  r == [ label |-> At(detections, i * d.objectSize + 1),
                         confidence |-> confidence,
                         location |-> EnlargeBox(d, x, y, w, h), row |-> i ]
              IN Loop7_Prepending(d, detections, i + 1,
                       IF Emits(d, confidence) THEN <<r>> \o acc ELSE acc)

\* The loop over the 7-wide rows, from row i on
RECURSIVE Loop7(_, _, _, _)
Loop7(d, detections, i, acc) ==
    IF ~(i < d.maxProposalCount /\ d.objectSize = 7) THEN acc
    ELSE IF At(detections, i * d.objectSize + 0) < 0 THEN acc
    ELSE LET confidence == At(detections, i * d.objectSize + 2) IN
         IF confidence <= d.detectionThreshold /\ ~d.doRawOutputMessages
         THEN Loop7(d, detections, i + 1, acc)
         ELSE LET x == Trunc(At(detections, i * d.objectSize + 3) * d.width, 4)
                  y == Trunc(At(detections, i * d.objectSize + 4) * d.height, 4)
                  w == Trunc(At(detections, i * d.objectSize + 5) * d.width - x * 4, 4)
                  h == Trunc(At(detections, i * d.objectSize + 6) * d.height - y * 4, 4)
                  r == [ label |-> At(detections, i * d.objectSize + 1),
                         confidence |-> confidence,
                         location |-> EnlargeBox(d, x, y, w, h), row |-> i ]
              IN Loop7(d, detections, i + 1,
                       IF Emits(d, confidence) THEN Append(acc, r) ELSE acc)

\* The first element read of every row the loops visit: the confidence of each
\* 5-wide row, the image_id of each 7-wide row up to the first negative one
RECURSIVE RowsRead(_, _, _)
RowsRead(d, detections, i) ==
    IF i >= d.maxProposalCount \/ d.objectSize \notin {5, 7} THEN <<>>
    ELSE IF d.objectSize = 5
    THEN IF d.labels_output = "" THEN <<>>
         ELSE <<(<<d.output, i * d.objectSize + 4>>)>> \o RowsRead(d, detections, i + 1)
    ELSE IF At(detections, i * d.objectSize) < 0 THEN <<(<<d.output, i * d.objectSize>>)>>
    ELSE <<(<<d.output, i * d.objectSize>>)>> \o RowsRead(d, detections, i + 1)

\* Mutant: fetchResults does not remember that it has decoded the tensor.
FaceDetection_fetchResults_NoMark(d, m, detections, labels, g) ==
    LET e == enabled(d) IN
    IF ~e.ret THEN WithLogs(Done(e.d, "none", <<>>), e)
    ELSE LET d1 == [e.d EXCEPT !.results = <<>>] IN
         IF d1.resultsFetched THEN WithLogs(Done(d1, "none", <<>>), e)
         ELSE LET d2 == d1 IN
              IF d2.request = "nullptr"
              THEN WithLogs(Done(d2, "crash", IF g.crash THEN <<>> ELSE <<"GetBlob">>), e)
              ELSE IF ~HasOutput(m, d2.output)
              THEN WithLogs(Done(d2, "ie_exception", <<"GetBlob">>), e)
              ELSE LET five == IF d2.labels_output # ""
                               THEN Loop5(d2, detections, labels, 0, <<>>)
                               ELSE <<>>
                       all == Loop7(d2, detections, 0, five)
                       calls == IF d2.labels_output # "" THEN <<"GetBlob", "GetBlob">>
                                ELSE <<"GetBlob">>
                   IN WithLogs(
                        [Done([d2 EXCEPT !.results = all], "none", calls)
                           EXCEPT !.reads = RowsRead(d2, detections, 0)], e)

\* detections and labels are the contents of the request's output tensors.
\* Each result carries the row it was decoded from (row is not a member of
\* Result: it is kept for the statements about order).
FaceDetection_fetchResults(d, m, detections, labels, g) ==
    LET e == enabled(d) IN
    IF ~e.ret THEN WithLogs(Done(e.d, "none", <<>>), e)
    ELSE LET d1 == [e.d EXCEPT !.results = <<>>] IN
         IF d1.resultsFetched THEN WithLogs(Done(d1, "none", <<>>), e)
         ELSE LET d2 == [d1 EXCEPT !.resultsFetched = TRUE] IN
              \* request->GetBlob(output) through a null request
              IF d2.request = "nullptr"
              THEN WithLogs(Done(d2, "crash", IF g.crash THEN <<>> ELSE <<"GetBlob">>), e)
              ELSE IF ~HasOutput(m, d2.output)
              THEN WithLogs(Done(d2, "ie_exception", <<"GetBlob">>), e)
              ELSE LET five == IF d2.labels_output # ""
                               THEN Loop5(d2, detections, labels, 0, <<>>)
                               ELSE <<>>
                       all == Loop7(d2, detections, 0, five)
                       calls == IF d2.labels_output # "" THEN <<"GetBlob", "GetBlob">>
                                ELSE <<"GetBlob">>
                   IN WithLogs(
                        [Done([d2 EXCEPT !.results = all], "none", calls)
                           EXCEPT !.reads = RowsRead(d2, detections, 0)], e)

-----------------------------------------------------------------------------
(* operator[] of the face analytics stages *)

\* const std::vector<std::string> emotionsVec of class EmotionsDetection
emotionsVec == <<"neutral", "happy", "sad", "surprise", "anger">>

\* getTensorChannels of a tensor description: the second dimension
getTensorChannels(o) == o.dims[2]

\* The tensors operator[] asks the request for, in the order of the GetBlob calls
BlobsAsked(d) ==
    CASE KindOf(d) = "AS" -> <<d.prob_output>>
      [] KindOf(d) = "AG" -> <<d.outputGender, d.outputAge>>
      [] KindOf(d) = "HP" -> <<d.outputAngleR, d.outputAngleP, d.outputAngleY>>
      [] KindOf(d) = "EM" -> <<d.outputEmotions>>
      [] KindOf(d) = "LM" -> <<d.outputFacialLandmarksBlobName, d.outputFacialLandmarksBlobName>>
      [] OTHER -> <<>>

\* Mutant: the landmarks of face idx are taken from face 0.
ElementsRead_FirstFace(d, m, idx) ==
    CASE KindOf(d) = "AS" -> <<(<<d.prob_output, 2 * idx>>)>>
      [] KindOf(d) = "AG" -> <<(<<d.outputAge, idx>>), (<<d.outputGender, idx * 2 + 1>>)>>
      [] KindOf(d) = "HP" -> <<(<<d.outputAngleR, idx>>), (<<d.outputAngleP, idx>>),
                               (<<d.outputAngleY, idx>>)>>
      [] KindOf(d) = "EM" ->
            [i \in 1..Len(emotionsVec) |->
                <<d.outputEmotions, idx * Len(emotionsVec) + (i - 1)>>]
      [] KindOf(d) = "LM" ->
            LET n_lm == getTensorChannels(OutputNamed(m, d.outputFacialLandmarksBlobName))
                begin == 0
            IN IF idx < 0 THEN <<>>
               ELSE [k \in 1..(2 * (n_lm \div 2)) |->
                        <<d.outputFacialLandmarksBlobName, 2 * begin + (k - 1)>>]
      [] OTHER -> <<>>

\* The elements operator[](idx) reads, in order.  In FacialLandmarksDetection
\* begin and end are size_t: for a negative idx, begin + n_lm / 2 wraps to 0 and
\* the loop body never runs.
ElementsRead(d, m, idx) ==
    CASE KindOf(d) = "AS" -> <<(<<d.prob_output, 2 * idx>>)>>
      [] KindOf(d) = "AG" -> <<(<<d.outputAge, idx>>), (<<d.outputGender, idx * 2 + 1>>)>>
      [] KindOf(d) = "HP" -> <<(<<d.outputAngleR, idx>>), (<<d.outputAngleP, idx>>),
                               (<<d.outputAngleY, idx>>)>>
      [] KindOf(d) = "EM" ->
            [i \in 1..Len(emotionsVec) |->
                <<d.outputEmotions, idx * Len(emotionsVec) + (i - 1)>>]
      [] KindOf(d) = "LM" ->
            LET n_lm == getTensorChannels(OutputNamed(m, d.outputFacialLandmarksBlobName))
                begin == (n_lm \div 2) * idx
            IN IF idx < 0 THEN <<>>
               ELSE [k \in 1..(2 * (n_lm \div 2)) |->
                        <<d.outputFacialLandmarksBlobName, 2 * begin + (k - 1)>>]
      [] OTHER -> <<>>

InBlob(d, m, rd) == rd[2] >= 0 /\ rd[2] < BlobSize(d, OutputNamed(m, rd[1]))

\* operator[](idx).  No function checks enabled(), the request or idx; the size
\* of the last submitted batch is kept in no member.
Secondary_decode(d, m, idx, g) ==
    LET asked == BlobsAsked(d)
        calls == [i \in 1..Len(asked) |-> "GetBlob"] IN
    \* request->GetBlob through a null request
    IF d.request = "nullptr"
    THEN Done(d, "crash", IF g.crash THEN <<>> ELSE <<"GetBlob">>)
    ELSE IF \E i \in 1..Len(asked) : ~HasOutput(m, asked[i])
    THEN Done(d, "ie_exception", <<"GetBlob">>)
    ELSE IF KindOf(d) = "EM"
            /\ (Len(OutputNamed(m, d.outputEmotions).dims) < 2
                \/ OutputNamed(m, d.outputEmotions).dims[2] # Len(emotionsVec))
    THEN Done(d, IF Len(OutputNamed(m, d.outputEmotions).dims) < 2
                 THEN "out_of_range" ELSE "logic_error", calls)
    ELSE LET rds == ElementsRead(d, m, idx) IN
         \* an element outside the tensor: the read is undefined
         IF (\E i \in 1..Len(rds) : ~InBlob(d, m, rds[i])) /\ g.crash
         THEN Done(d, "crash", calls)
         ELSE [Done(d, "none", calls) EXCEPT !.reads = rds]

\* Mutant: the labels are taken one place late.
emotionsOf_Shifted(rds) ==
    [l \in {emotionsVec[i] : i \in 1..Len(emotionsVec)} |->
        rds[((CHOOSE i \in 1..Len(emotionsVec) : emotionsVec[i] = l) % Len(emotionsVec)) + 1]]

\* The loop emotions[emotionsVec[i]] = outputIdxPos[i] of EmotionsDetection::
\* operator[]: the std::map it fills, where rds[i] stands for the element read
\* at step i and a later assignment to the same key replaces an earlier one.
emotionsOf(rds) ==
    [l \in {emotionsVec[i] : i \in 1..Len(emotionsVec)} |->
        rds[CHOOSE i \in 1..Len(emotionsVec) :
               /\ emotionsVec[i] = l
               /\ \A j \in (i + 1)..Len(emotionsVec) : emotionsVec[j] # l]]

\* The vector FacialLandmarksDetection::operator[] returns: every element read
\* is pushed back, in the order of the reads (an element stands for its position)
normedLandmarks(rds) == [k \in 1..Len(rds) |-> rds[k][2]]

\* What operator[] returns, as far as the statements need it: the map of
\* EmotionsDetection, the vector of FacialLandmarksDetection, nothing for the
\* other stages and for a call that throws
DecodeValue(d, r) ==
    IF KindOf(d) = "EM" /\ r.err = "none" THEN emotionsOf(r.reads)
    ELSE IF KindOf(d) = "LM" /\ r.err = "none" THEN normedLandmarks(r.reads)
    ELSE FALSE

-----------------------------------------------------------------------------
(* The inference engine: what a run leaves in the output tensors *)

\* Rows of the 7-wide tensor: image_id, label, confidence, x0, y0, x1, y1
Rows7 == { <<id, 1, c, 1, 1, 3, 3>> : id \in {-1, 0}, c \in 0..MaxConf }
\* Rows of the 5-wide tensor: x0, y0, x1, y1, confidence
Rows5 == { <<1, 1, 3, 3, c>> : c \in 0..MaxConf }

\* All tensors of n rows drawn from rows, flattened row after row
RECURSIVE FlatTensors(_, _)
FlatTensors(rows, n) ==
    IF n = 0 THEN {<<>>}
    ELSE { r \o t : r \in rows, t \in FlatTensors(rows, n - 1) }

\* The contents the detection output tensor of detector d can have
OutputTensors(d) ==
    IF KindOf(d) # "FD" THEN {<<>>}
    ELSE IF d.objectSize = 7 THEN FlatTensors(Rows7, Min(d.maxProposalCount, MaxProposals))
    ELSE IF d.objectSize = 5 THEN FlatTensors(Rows5, Min(d.maxProposalCount, MaxProposals))
    ELSE {<<>>}

\* The labels tensor: every proposal is a face (label 1)
LabelsTensor(d) ==
    IF KindOf(d) = "FD" /\ d.labels_output # ""
    THEN [i \in 1..Min(d.maxProposalCount, MaxProposals) |-> 1] ELSE <<>>

-----------------------------------------------------------------------------
(* Initial states: a detector as its constructor leaves it *)

Paths == {"", "model.xml"}

NoFile == Net(<<>>, <<>>)

\* The output tensors hold what the last run submitted has produced
OutputOfLastRun == lastBatch > 0 /\ ~busy

\* A Timer without records
NoTimers == [name \in {} |-> 0]

\* Names the application times
Stages == {"detection", "total"}

\* No call was made on any stage name
NoCalls == [name \in Stages |-> [durations |-> <<>>, at |-> 0, again |-> FALSE]]

Init ==
    /\ \E k \in Kinds, path \in Paths, isAsync \in BOOLEAN :
         \E maxBatch \in (IF k = "FD" THEN {1} ELSE 1..MaxBatch),
            isBatchDynamic \in (IF k = "FD" THEN {FALSE} ELSE BOOLEAN),
            raw \in (IF k = "FD" THEN BOOLEAN ELSE {FALSE}),
            threshold \in (IF k = "FD" THEN 0..MaxConf ELSE {0}) :
           /\ detector = NewDetector(k, path, maxBatch, isBatchDynamic, isAsync, raw, threshold)
           /\ model \in (IF path = "" THEN {NoFile} ELSE ModelsOf(k))
    /\ inputBlob = <<>>
    /\ outputBlob = <<>>
    /\ labelsBlob = <<>>
    /\ busy = FALSE
    /\ lastBatch = 0
    /\ lastOp = "constructor"
    /\ lastArg = 0
    /\ lastErr = "none"
    /\ lastRet = FALSE
    /\ opCalls = <<>>
    /\ opReads = <<>>
    /\ opWrites = <<>>
    /\ disabledLogs = 0
    /\ resultsOfLastRun = FALSE
    /\ acceptedFaces = <<>>
    /\ _timers = NoTimers
    /\ finished = NoCalls
    /\ now = 0

-----------------------------------------------------------------------------
(* Steps: one call of a member function by the application *)

Alive == lastErr # "crash"

\* What every call records
Observe(op, arg, r, ret) ==
    /\ detector' = r.d
    /\ lastOp' = op
    /\ lastArg' = arg
    /\ lastErr' = r.err
    /\ lastRet' = ret
    /\ opCalls' = r.calls
    /\ opReads' = r.reads
    /\ opWrites' = r.write
    /\ disabledLogs' = disabledLogs + r.logs

\* detector.enabled()
IsEnabled ==
    /\ Alive
    /\ LET e == enabled(detector) IN
       Observe("enabled", 0, WithLogs(Done(e.d, "none", <<>>), e), e.ret)
    /\ UNCHANGED <<model, inputBlob, outputBlob, labelsBlob, busy, lastBatch, resultsOfLastRun, acceptedFaces>>
    /\ UNCHANGED timerVars

\* read has undefined behaviour on these files: a single detection output of
\* fewer than 4 dimensions, a landmarks network without outputs
ReadIsUndefined(d, m) ==
    /\ Len(m.ins) = 1
    /\ \/ KindOf(d) = "FD" /\ Len(m.outs) = 1 /\ Len(m.outs[1].dims) < 4
       \/ KindOf(d) = "LM" /\ Len(m.outs) = 0

\* Load(detector).into(ie, deviceName, enable_dynamic_batch)
LoadInto ==
    /\ Alive
    /\ \E deviceName \in Devices, enable_dynamic_batch \in BOOLEAN,
          g \in (IF ReadIsUndefined(detector, model) THEN UBChoices ELSE {NoUB}) :
         LET r == Load_into(detector, model, deviceName, enable_dynamic_batch, g) IN
         Observe("Load::into", 0,
                 [Done(r.d, r.err, r.calls) EXCEPT !.logs = r.logs], FALSE)
    /\ UNCHANGED <<model, inputBlob, outputBlob, labelsBlob, busy, lastBatch, resultsOfLastRun, acceptedFaces>>
    /\ UNCHANGED timerVars

\* detector.enqueue(image i)
Enqueue ==
    /\ Alive
    /\ \E i \in 1..NumFaces :
         LET r == enqueue(detector, Mat(i))
             blob == IF r.create THEN [s \in 1..detector.maxBatch |-> 0] ELSE inputBlob
         IN /\ Observe("enqueue", i, r, FALSE)
            /\ inputBlob' = IF r.write = <<>> THEN blob
                            ELSE [blob EXCEPT ![r.write[1] + 1] = r.write[2]]
            \* the tensors of a new request hold whatever the memory holds
            /\ IF r.create
               THEN /\ outputBlob' \in OutputTensors(r.d)
                    /\ labelsBlob' = LabelsTensor(r.d)
               ELSE UNCHANGED <<outputBlob, labelsBlob>>
            /\ acceptedFaces' = IF KindOf(detector) # "FD" /\ r.write # <<>>
                                THEN Append(acceptedFaces, i) ELSE acceptedFaces
    /\ UNCHANGED <<model, busy, lastBatch, resultsOfLastRun>>
    /\ UNCHANGED timerVars

\* detector.submitRequest().  Infer returns when the run is complete and the
\* output tensors are written; StartAsync returns at once.
Submit ==
    /\ Alive
    /\ LET r == submitRequest(detector)
           fd == KindOf(detector) = "FD"
           n == IF fd THEN detector.enquedFrames ELSE detector.enquedFaces
       IN /\ Observe("submitRequest", 0, r, FALSE)
          /\ IF r.run = "sync"
             THEN /\ outputBlob' \in OutputTensors(r.d)
                  /\ busy' = FALSE
                  /\ lastBatch' = n
                  /\ resultsOfLastRun' = FALSE
                  /\ acceptedFaces' = <<>>
             ELSE IF r.run = "async"
             THEN /\ busy' = TRUE
                  /\ lastBatch' = n
                  /\ resultsOfLastRun' = FALSE
                  /\ acceptedFaces' = <<>>
                  /\ UNCHANGED outputBlob
             ELSE UNCHANGED <<outputBlob, busy, lastBatch, resultsOfLastRun, acceptedFaces>>
    /\ UNCHANGED <<model, inputBlob, labelsBlob>>
    /\ UNCHANGED timerVars

\* detector.wait().  Wait(RESULT_READY) returns when the run is complete; the
\* value recorded is whether the call had a run to wait for.
Wait ==
    /\ Alive
    /\ LET r == BaseDetection_wait(detector) IN
       /\ Observe("wait", 0, r, r.calls # <<>> /\ busy)
       /\ IF r.calls # <<>> /\ busy
          THEN /\ busy' = FALSE
               /\ outputBlob' \in OutputTensors(r.d)
          ELSE UNCHANGED <<outputBlob, busy>>
    /\ UNCHANGED <<model, inputBlob, labelsBlob, lastBatch, resultsOfLastRun, acceptedFaces>>
    /\ UNCHANGED timerVars

\* The engine completes the asynchronous run on its own
Complete ==
    /\ Alive
    /\ busy
    /\ busy' = FALSE
    /\ outputBlob' \in OutputTensors(detector)
    /\ UNCHANGED <<detector, model, inputBlob, labelsBlob, lastBatch, lastOp, lastArg,
                   lastErr, lastRet, opCalls, opReads, opWrites, disabledLogs, resultsOfLastRun, acceptedFaces>>
    /\ UNCHANGED timerVars

\* faceDetector.fetchResults()
FetchResults ==
    /\ Alive
    /\ KindOf(detector) = "FD"
    /\ \E g \in (IF detector.request = "nullptr" THEN CrashChoices ELSE {NoUB}) :
         LET r == FaceDetection_fetchResults(detector, model, outputBlob, labelsBlob, g) IN
         /\ Observe("fetchResults", 0, r, FALSE)
         /\ resultsOfLastRun' = (r.err = "none" /\ r.calls # <<>> /\ OutputOfLastRun)
    /\ UNCHANGED <<model, inputBlob, outputBlob, labelsBlob, busy, lastBatch, acceptedFaces>>
    /\ UNCHANGED timerVars

\* operator[] has undefined behaviour through a null request and on an element
\* outside the tensor
DecodeIsUndefined(d, m, idx) ==
    \/ d.request = "nullptr"
    \/ /\ \A i \in 1..Len(BlobsAsked(d)) : HasOutput(m, BlobsAsked(d)[i])
       /\ \E i \in 1..Len(ElementsRead(d, m, idx)) : ~InBlob(d, m, ElementsRead(d, m, idx)[i])

\* detector[idx] of a face analytics stage
Decode ==
    /\ Alive
    /\ KindOf(detector) # "FD"
    /\ \E idx \in -1..MaxBatch :
       \E g \in (IF DecodeIsUndefined(detector, model, idx) THEN CrashChoices ELSE {NoUB}) :
         LET r == Secondary_decode(detector, model, idx, g) IN
         Observe("operator[]", idx, r, DecodeValue(detector, r))
    /\ UNCHANGED <<model, inputBlob, outputBlob, labelsBlob, busy, lastBatch, resultsOfLastRun, acceptedFaces>>
    /\ UNCHANGED timerVars

Next ==
    \/ IsEnabled
    \/ LoadInto
    \/ Enqueue
    \/ Submit
    \/ Wait
    \/ Complete
    \/ FetchResults
    \/ Decode

Spec == Init /\ [][Next]_vars

-----------------------------------------------------------------------------
(* Vocabulary of the statements below *)

IsSecondary == KindOf(detector) \in Secondary
Configured == detector.pathToModel # ""
HasRequest == detector.request # "nullptr"
Ran(calls) == \E i \in 1..Len(calls) : calls[i] \in {"Infer", "StartAsync"}
Pending(d) == IF KindOf(d) = "FD" THEN d.enquedFrames ELSE d.enquedFaces

\* read has stored every tensor name the stage uses
Validated(d) ==
    /\ d.input # ""
    /\ CASE KindOf(d) = "FD" -> d.output # "" /\ d.objectSize \in {5, 7}
         [] KindOf(d) = "AS" -> d.prob_output # "" /\ d._enabled
         [] KindOf(d) = "AG" -> d.outputAge # "" /\ d.outputGender # "" /\ d._enabled
         [] KindOf(d) = "EM" -> d.outputEmotions # "" /\ d._enabled
         [] OTHER -> d._enabled

\* read has stored something
Touched(d) ==
    \/ d.input # ""
    \/ d.output # ""
    \/ d.labels_output # ""
    \/ d.network_input_width # 0

-----------------------------------------------------------------------------
(* C1 *)

\* C1: every detection in the result list of the face detector has a confidence
\* strictly greater than the detection threshold, for every threshold, in both
\* output formats and with or without raw output messages.
C1_EmittedAboveThreshold ==
    \A k \in 1..Len(detector.results) :
        detector.results[k].confidence > detector.detectionThreshold

\* A synchronous detector with raw output has just decoded a 5-wide tensor that
\* holds a proposal at the threshold and one above it, and emitted one.
C1_Witness ==
    /\ lastOp = "fetchResults"
    /\ ~detector.isAsync
    /\ detector.doRawOutputMessages
    /\ detector.objectSize = 5
    /\ Len(detector.results) = 1
    /\ \E i \in 0..(detector.maxProposalCount - 1) :
          At(outputBlob, i * 5 + 4) = detector.detectionThreshold

-----------------------------------------------------------------------------
(* C2 *)

\* C2: in a face analytics stage the number of enqueued faces stays within
\* 0..maxBatch, and an enqueue made when it equals maxBatch changes neither the
\* count nor the input tensor, writes no slot and throws nothing.
C2_CountBounded ==
    /\ [](IsSecondary => detector.enquedFaces \in 0..detector.maxBatch)
    /\ [][(Enqueue /\ IsSecondary /\ detector.enquedFaces = detector.maxBatch)
            => /\ detector'.enquedFaces = detector.enquedFaces
               /\ inputBlob' = inputBlob
               /\ opWrites' = <<>>
               /\ lastErr' = "none"]_vars

\* An enqueue was refused because the batch was full.
C2_Witness ==
    /\ IsSecondary
    /\ lastOp = "enqueue"
    /\ HasRequest
    /\ detector.enquedFaces = detector.maxBatch
    /\ opWrites = <<>>
    /\ lastErr = "none"

-----------------------------------------------------------------------------
(* C3 *)

\* C3: a stage with an empty model path never calls the inference engine,
\* whatever member function is called on it.
C3_DisabledNeverCallsBackend ==
    ~Configured => opCalls = <<>>

-----------------------------------------------------------------------------
(* C4 *)

\* C4: operator[] of a face analytics stage with an index outside
\* [0, size of the last submitted batch) fails with an out-of-range error and
\* reads no element of an output tensor.
C4_DecodeBoundsChecked ==
    (/\ IsSecondary
     /\ lastOp = "operator[]"
     /\ HasRequest
     /\ (lastArg < 0 \/ lastArg >= lastBatch))
        => (lastErr = "out_of_range" /\ opReads = <<>>)

-----------------------------------------------------------------------------
(* C5 *)

\* C5 as stated: at every point the stage has all of {tensor names validated,
\* network loaded, request allocated} or none of them.
C5_UnboundOrBound ==
    \/ (Validated(detector) /\ detector.net.loaded /\ HasRequest)
    \/ (~Touched(detector) /\ ~detector.net.loaded /\ ~HasRequest)

\* C5 amended: the three parts are acquired in order and never out of order.  A
\* request is allocated only when the network is loaded, the network is loaded
\* only when read has validated every tensor name, and a stage with an empty
\* path has none of them.
C5_BoundInOrder ==
    /\ HasRequest => detector.net.loaded
    /\ detector.net.loaded => Validated(detector)
    /\ ~Configured => (~Touched(detector) /\ ~detector.net.loaded /\ ~HasRequest)

\* A bound stage whose first enqueue has allocated the request.
C5_Witness ==
    /\ lastOp = "enqueue"
    /\ HasRequest
    /\ detector.net.loaded
    /\ Validated(detector)

-----------------------------------------------------------------------------
(* C6 *)

JustBound(k) == lastOp = "Load::into" /\ KindOf(detector) = k /\ Configured

\* C6: binding the facial landmarks stage to a network whose one output is not
\* named align_fc3, or has a rank other than 2, or has a last dimension other
\* than 70, fails with a logic error.
C6_LandmarksShapeChecked ==
    (/\ JustBound("LM")
     /\ Len(model.ins) = 1
     /\ Len(model.outs) = 1
     /\ \/ model.outs[1].name # "align_fc3"
        \/ Len(model.outs[1].dims) # 2
        \/ Back(model.outs[1].dims) # 70)
        => (lastErr = "logic_error" /\ ~detector.net.loaded)

-----------------------------------------------------------------------------
(* C7 *)

\* The number of outputs is not the one the stage works with
OutputCountMismatch(k, m) ==
    CASE k = "AG" -> Len(m.outs) # 2
      [] k \in {"EM", "AS", "LM"} -> Len(m.outs) # 1
      [] k = "HP" -> \E n \in {"angle_r_fc", "angle_p_fc", "angle_y_fc"} : ~HasOutput(m, n)
      [] OTHER -> FALSE

\* C7: binding any stage to a network with an input count other than 1, or
\* with an output count other than the stage's (Age/Gender 2, Emotions 1,
\* Antispoofing 1, Landmarks 1, Head Pose the three angle outputs), fails with a
\* logic error before LoadNetwork is called, and the network stays unloaded.
\* (Stated for networks on which read has defined behaviour.)
C7_CountsChecked ==
    (/\ lastOp = "Load::into"
     /\ Configured
     /\ ~ReadIsUndefined(detector, model)
     /\ (Len(model.ins) # 1 \/ OutputCountMismatch(KindOf(detector), model)))
        => /\ lastErr = "logic_error"
           /\ ~detector.net.loaded
           /\ \A i \in 1..Len(opCalls) : opCalls[i] # "LoadNetwork"

-----------------------------------------------------------------------------
(* C8 *)

\* The two output contracts of the face detector
FDContract(m) ==
    \/ /\ Len(m.outs) = 1
       /\ Len(m.outs[1].dims) = 4
       /\ Back(m.outs[1].dims) = 7
    \/ /\ Len(m.outs) # 1
       /\ \E i \in 1..Len(m.outs) : Len(m.outs[i].dims) = 2 /\ Back(m.outs[i].dims) = 5
       /\ \E i \in 1..Len(m.outs) : Len(m.outs[i].dims) = 1 /\ m.outs[i].prec = "I32"

\* C8: binding the face detector succeeds only for a network that meets one of
\* the two output contracts, and fails with a logic error for any other
\* network with one input.
C8_DetectorContract ==
    (JustBound("FD") /\ Len(model.ins) = 1)
        => /\ (lastErr = "none") = FDContract(model)
           /\ ~FDContract(model) => lastErr = "logic_error"

-----------------------------------------------------------------------------
(* C9 *)

\* C9: enabled() returns true exactly when the model path is not empty, on
\* every call; "DISABLED" is logged at most once, and only for an empty path.
C9_EnabledCached ==
    /\ lastOp = "enabled" => (lastRet = Configured)
    /\ detector.enablingChecked => (detector._enabled = Configured)
    /\ disabledLogs <= 1
    /\ Configured => disabledLogs = 0
    /\ disabledLogs = 1 => detector.enablingChecked

\* enabled() was called on a stage without a path, after the line was logged.
C9_Witness ==
    /\ lastOp = "enabled"
    /\ ~Configured
    /\ ~lastRet
    /\ disabledLogs = 1

-----------------------------------------------------------------------------
(* C10 *)

\* C10: submitRequest with nothing enqueued issues no engine call and changes
\* neither the detector nor the request; and a submitRequest that follows a
\* submitRequest with no enqueue in between does not run the request.
C10_EmptySubmitIsNoOp ==
    /\ [][(Submit /\ Pending(detector) = 0)
            => /\ opCalls' = <<>>
               /\ lastErr' = "none"
               /\ UNCHANGED <<detector, inputBlob, outputBlob, labelsBlob, busy, lastBatch>>]_vars
    /\ [][(Submit /\ lastOp = "submitRequest") => ~Ran(opCalls')]_vars

\* A submitRequest that did nothing, after an earlier one that ran a batch.
C10_Witness ==
    /\ lastOp = "submitRequest"
    /\ opCalls = <<>>
    /\ HasRequest
    /\ detector._enabled
    /\ lastBatch > 0
    /\ Pending(detector) = 0

-----------------------------------------------------------------------------
(* C11 *)

\* The SetBatch calls the engine can see
SetBatchCalls == { SetBatchCall(n) : n \in 0..(MaxBatch + 1) }

\* C11: a face analytics stage with isBatchDynamic set that submits n > 0
\* enqueued faces calls SetBatch(n) and then runs the request, in this order
\* and with nothing else; a stage without the flag never calls SetBatch.
C11_BatchResizedBeforeRun ==
    /\ [][(Submit /\ IsSecondary /\ detector.isBatchDynamic /\ detector.enquedFaces > 0)
            => opCalls' = <<SetBatchCall(detector.enquedFaces),
                            IF detector.isAsync THEN "StartAsync" ELSE "Infer">>]_vars
    /\ [][(Submit /\ IsSecondary /\ ~detector.isBatchDynamic)
            => \A i \in 1..Len(opCalls') : opCalls'[i] \notin SetBatchCalls]_vars

\* A stage with room for two faces has submitted one face: the batch was set to
\* 1, not to maxBatch, before the run.
C11_Witness ==
    /\ IsSecondary
    /\ lastOp = "submitRequest"
    /\ detector.isBatchDynamic
    /\ detector.maxBatch = 2
    /\ lastBatch = 1
    /\ opCalls = <<SetBatchCall(1), "Infer">>

-----------------------------------------------------------------------------
(* C12 *)

\* wait() has a request to wait on
Waits == Configured /\ detector.isAsync /\ HasRequest

\* C12: wait() on an enabled asynchronous stage with a request calls Wait and
\* returns with the run complete, so that a fetchResults that follows decodes
\* the output of the run submitted last; on a synchronous stage, a disabled
\* stage and a stage without request it calls nothing, does not block and
\* leaves the request as it is.
C12_WaitBlocks ==
    /\ [](lastOp = "wait" =>
            /\ opCalls = (IF Waits THEN <<"Wait">> ELSE <<>>)
            /\ Waits => ~busy)
    /\ [][(Wait /\ ~Waits)
            => /\ opCalls' = <<>>
               /\ ~lastRet'
               /\ UNCHANGED <<busy, inputBlob, outputBlob, labelsBlob>>]_vars
    /\ [][(FetchResults /\ lastOp = "wait" /\ Waits /\ lastBatch > 0 /\ opReads' # <<>>)
            => resultsOfLastRun']_vars

\* wait() was called while the run was in flight and has returned.
C12_Witness ==
    /\ lastOp = "wait"
    /\ lastRet
    /\ opCalls = <<"Wait">>
    /\ ~busy
    /\ lastBatch > 0

-----------------------------------------------------------------------------
(* C13 *)

IsFD == KindOf(detector) = "FD"

\* C13: the face detector has 0 or 1 pending frame.  An enqueue that succeeds,
\* whether a frame was pending or not, leaves one pending frame: the image it
\* was given, in slot 0 of the input tensor, with width and height taken from
\* it.  A submit with a pending frame runs the request once and leaves none.
C13_OnePendingFrame ==
    /\ [](IsFD => detector.enquedFrames \in {0, 1})
    /\ [][(Enqueue /\ IsFD /\ Configured /\ lastErr' = "none")
            => /\ detector'.enquedFrames = 1
               /\ inputBlob' = <<lastArg'>>
               /\ opWrites' = <<0, lastArg'>>
               /\ detector'.width = Mat(lastArg').cols
               /\ detector'.height = Mat(lastArg').rows]_vars
    /\ [][(Submit /\ IsFD /\ detector.enquedFrames = 1)
            => /\ opCalls' = <<IF detector.isAsync THEN "StartAsync" ELSE "Infer">>
               /\ lastBatch' = 1
               /\ detector'.enquedFrames = 0]_vars

\* The second of two enqueue calls with no run in between: the request was
\* there already (only GetBlob was called), no run was ever submitted, and the
\* one pending frame is the image given last.
C13_Witness ==
    /\ IsFD
    /\ lastOp = "enqueue"
    /\ opCalls = <<"GetBlob">>
    /\ lastBatch = 0
    /\ detector.enquedFrames = 1
    /\ lastArg = 2
    /\ inputBlob = <<2>>
    /\ detector.width = Mat(2).cols

-----------------------------------------------------------------------------
(* C14 *)

\* Position in a row of the confidence of a proposal
ConfidenceAt(d) == IF d.objectSize = 7 THEN 2 ELSE 4

\* C14 as stated: after any sequence of enqueue, submitRequest and fetchResults
\* the result list holds only detections decoded from the frame submitted last.
C14_OnlyLastSubmittedFrame ==
    (IsFD /\ detector.results # <<>>) => resultsOfLastRun

\* C14 amended: the list never accumulates.  A submit that runs the request
\* empties it; a fetchResults fills it only from rows of the output tensor as it
\* is at that call, each row at most once and in the order of the rows; and a
\* list that is not of the run submitted last was fetched before the first run
\* or from an asynchronous stage (before its run was complete).
C14_NoAccumulation ==
    /\ [][(Submit /\ IsFD /\ detector.enquedFrames = 1) => detector'.results = <<>>]_vars
    /\ [][(FetchResults)
            => LET res == detector'.results IN
               /\ Len(res) <= detector.maxProposalCount
               /\ \A k \in 1..Len(res) :
                    /\ res[k].row \in 0..(detector.maxProposalCount - 1)
                    /\ res[k].confidence =
                          At(outputBlob, res[k].row * detector.objectSize + ConfidenceAt(detector))
                    /\ k > 1 => res[k - 1].row < res[k].row]_vars
    /\ [](((IsFD /\ detector.results # <<>>) /\ ~resultsOfLastRun)
             => (lastBatch = 0 \/ detector.isAsync))

\* A full list fetched after a run, then a new frame was run and fetched: the
\* list holds the detections of the new run only.
C14_Witness ==
    /\ IsFD
    /\ lastOp = "fetchResults"
    /\ resultsOfLastRun
    /\ Len(detector.results) = detector.maxProposalCount
    /\ detector.maxProposalCount = MaxProposals

-----------------------------------------------------------------------------
(* C19 *)

\* operator[] was called on an Emotions stage that has its request, and the
\* output tensor has a channel dimension
EmotionsDecoded ==
    /\ KindOf(detector) = "EM"
    /\ lastOp = "operator[]"
    /\ HasRequest
    /\ Len(OutputNamed(model, detector.outputEmotions).dims) >= 2

\* C19: when the channel dimension of the output tensor differs from the length
\* of emotionsVec, operator[](idx) throws a logic error for every idx, reads no
\* element and returns nothing; when they are equal and the call returns, the
\* map has exactly the labels of emotionsVec as keys and label i (from 0) maps
\* to the element at position idx * length + i; it returns for every idx of the
\* batch.
C19_EmotionsDecode ==
    EmotionsDecoded =>
        LET n == Len(emotionsVec)
            channels == OutputNamed(model, detector.outputEmotions).dims[2]
        IN IF channels # n
           THEN lastErr = "logic_error" /\ opReads = <<>> /\ lastRet = FALSE
           ELSE /\ lastArg \in 0..(detector.maxBatch - 1) => lastErr = "none"
                /\ lastErr = "none" =>
                     /\ DOMAIN lastRet = { emotionsVec[i] : i \in 1..n }
                     /\ Cardinality(DOMAIN lastRet) = n
                     /\ \A i \in 1..n :
                          lastRet[emotionsVec[i]] =
                             <<detector.outputEmotions, lastArg * n + (i - 1)>>

\* The second face of a batch of two was decoded.
C19_Witness ==
    /\ EmotionsDecoded
    /\ lastErr = "none"
    /\ lastArg = 1
    /\ detector.maxBatch = 2
    /\ lastRet[emotionsVec[2]] = <<detector.outputEmotions, Len(emotionsVec) + 1>>

-----------------------------------------------------------------------------
(* C20 *)

\* The first row of the 7-wide tensor whose image_id is negative, or the number
\* of rows when there is none
FirstSentinel(d, detections) ==
    LET neg == { i \in 0..(d.maxProposalCount - 1) : At(detections, i * 7) < 0 } IN
    IF neg = {} THEN d.maxProposalCount ELSE CHOOSE i \in neg : \A j \in neg : i <= j

\* C20: in the 7-wide format a fetchResults that decodes emits row i exactly
\* when i is before the first row with a negative image_id and its confidence
\* is above the threshold; the row with the negative image_id and the rows
\* after it are never emitted, whatever their confidence.
C20_StopsAtSentinel ==
    [][(FetchResults /\ detector.objectSize = 7 /\ opReads' # <<>>)
         => \A i \in 0..(detector.maxProposalCount - 1) :
               (\E k \in 1..Len(detector'.results) : detector'.results[k].row = i)
                 <=> /\ i < FirstSentinel(detector, outputBlob)
                     /\ At(outputBlob, i * 7 + 2) > detector.detectionThreshold]_vars

\* Row 0 was emitted; row 1 has a negative image_id and a confidence above the
\* threshold and was not.
C20_Witness ==
    /\ IsFD
    /\ lastOp = "fetchResults"
    /\ ~detector.isAsync
    /\ detector.objectSize = 7
    /\ Len(opReads) = 2
    /\ At(outputBlob, 7) < 0
    /\ At(outputBlob, 7 + 2) > detector.detectionThreshold
    /\ Len(detector.results) = 1
    /\ detector.results[1].row = 0

-----------------------------------------------------------------------------
(* The face boxes of FaceDetection::fetchResults on their own: a detector   *)
(* that was loaded, was given a frame and has run, with the coefficients,   *)
(* the frame and the output tensor drawn from sets                          *)

\* bb_enlarge_coefficient, and bb_dx_coefficient and bb_dy_coefficient, in tenths
EnlargeCoefficients == {10, 12, 14}
ShiftCoefficients == {5, 10}

\* Frames handed to enqueue
BoxFrames == { [id |-> 1, cols |-> 100, rows |-> 50],
               [id |-> 2, cols |-> 48, rows |-> 64],
               [id |-> 3, cols |-> 8, rows |-> 12] }

\* Corner coordinates of a proposal, in quarters of the frame (7-wide) and in
\* pixels of the 4 x 4 network input (5-wide); x1 < x0 gives a negative width
BoxCorners == { <<0, 0, 4, 4>>, <<0, 0, 4, 2>>, <<1, 0, 4, 3>>, <<1, 1, 2, 4>>,
                <<0, 1, 3, 2>>, <<2, 1, 1, 3>>, <<3, 2, 0, 0>>, <<1, 0, 2, 1>> }

BoxRows7 == { <<0, 1, 1>> \o c : c \in BoxCorners }
BoxRows5 == { c \o <<1>> : c \in BoxCorners }

BoxModels == {
    Net(<<"data">>, <<Out("detection_out", <<1, 1, MaxProposals, 7>>, "FP32")>>),
    Net(<<"data">>, <<Out("boxes", <<MaxProposals, 5>>, "FP32"),
                      Out("labels", <<MaxProposals>>, "I32")>>) }

\* The detector after Load(detector).into(ie, "CPU", false), enqueue(frame) and
\* submitRequest()
Detecting(e, dx, dy, m, frame) ==
    LET d0 == [NewDetector("FD", "model.xml", 1, FALSE, FALSE, FALSE, 0)
                 EXCEPT !.bb_enlarge_coefficient = e,
                        !.bb_dx_coefficient = dx,
                        !.bb_dy_coefficient = dy]
        d1 == Load_into(d0, m, <<"C", "P", "U">>, FALSE, NoUB).d
        d2 == FaceDetection_enqueue(d1, frame).d
    IN FaceDetection_submitRequest(d2).d

BoxInit ==
    /\ \E e \in EnlargeCoefficients, dx \in ShiftCoefficients, dy \in ShiftCoefficients,
          m \in BoxModels, frame \in BoxFrames :
         /\ detector = Detecting(e, dx, dy, m, frame)
         /\ model = m
         /\ inputBlob = <<frame.id>>
         /\ outputBlob \in FlatTensors(IF detector.objectSize = 7 THEN BoxRows7 ELSE BoxRows5,
                                       detector.maxProposalCount)
         /\ labelsBlob = LabelsTensor(detector)
    /\ busy = FALSE
    /\ lastBatch = 1
    /\ lastOp = "submitRequest"
    /\ lastArg = 0
    /\ lastErr = "none"
    /\ lastRet = FALSE
    /\ opCalls = <<"Infer">>
    /\ opReads = <<>>
    /\ opWrites = <<>>
    /\ disabledLogs = 0
    /\ resultsOfLastRun = FALSE
    /\ acceptedFaces = <<>>
    /\ _timers = NoTimers
    /\ finished = NoCalls
    /\ now = 0

BoxSpec == BoxInit /\ [][FetchResults]_vars

\* The denormalized box of row i, before it is enlarged: x, y, width, height
RawBox(d, detections, i) ==
    IF d.objectSize = 7
    THEN LET x == Trunc(At(detections, i * 7 + 3) * d.width, 4)
             y == Trunc(At(detections, i * 7 + 4) * d.height, 4)
         IN << x, y,
               Trunc(At(detections, i * 7 + 5) * d.width - x * 4, 4),
               Trunc(At(detections, i * 7 + 6) * d.height - y * 4, 4) >>
    ELSE LET x == Trunc(At(detections, i * 5 + 0) * d.width, d.network_input_width)
             y == Trunc(At(detections, i * 5 + 1) * d.height, d.network_input_height)
         IN << x, y,
               Trunc(At(detections, i * 5 + 2) * d.width - x * d.network_input_width,
                     d.network_input_width),
               Trunc(At(detections, i * 5 + 3) * d.height - y * d.network_input_height,
                     d.network_input_height) >>

-----------------------------------------------------------------------------
(* C18 *)

\* C18: every box fetchResults emits, in the 7-wide and in the 5-wide format,
\* has width = height = trunc(e * max(w, h)) and origin
\* (cx - floor(dx * width / 2), cy - floor(dy * height / 2)), where (x, y, w, h)
\* is the denormalized box of its row and (cx, cy) = (x + w/2, y + h/2) in
\* integer division; the box is not clamped to the frame: the raw box
\* (0, 0, 100, 50) with e = 1.4 and dx = dy = 1 is emitted as (-20, -45) 140 x 140.
C18_BoxEnlarged ==
    [][FetchResults =>
         \A k \in 1..Len(detector'.results) :
            LET raw == RawBox(detector, outputBlob, detector'.results[k].row)
                loc == detector'.results[k].location
                e == detector.bb_enlarge_coefficient
                cx == raw[1] + CDiv(raw[3], 2)
                cy == raw[2] + CDiv(raw[4], 2)
            IN /\ loc.width = Trunc(e * Max(raw[3], raw[4]), 10)
               /\ loc.height = loc.width
               /\ loc.x = cx - Floor(detector.bb_dx_coefficient * loc.width, 20)
               /\ loc.y = cy - Floor(detector.bb_dy_coefficient * loc.height, 20)
               /\ (raw = <<0, 0, 100, 50>> /\ e = 14
                     /\ detector.bb_dx_coefficient = 10 /\ detector.bb_dy_coefficient = 10)
                    => loc = [x |-> -20, y |-> -45, width |-> 140, height |-> 140]]_vars

\* The box of the statement was emitted for a frame of 100 x 50, and a box of
\* negative width with it.
C18_Witness ==
    /\ lastOp = "fetchResults"
    /\ detector.objectSize = 5
    /\ detector.width = 100 /\ detector.height = 50
    /\ detector.bb_enlarge_coefficient = 14
    /\ Len(detector.results) = 2
    /\ RawBox(detector, outputBlob, 0) = <<0, 0, 100, 50>>
    /\ detector.results[1].location = [x |-> -20, y |-> -45, width |-> 140, height |-> 140]
    /\ RawBox(detector, outputBlob, 1)[3] < 0

-----------------------------------------------------------------------------
(* double arithmetic.  The values CallStat computes with are doubles; a     *)
(* double is the number m * 2^e (negated when neg), with m a natural number *)
(* written in limbs of LimbBits bits, least significant limb first, without *)
(* leading zero limbs.  A double is kept with m odd (or m = 0 and e = 0), so *)
(* that two doubles are the same number exactly when the records are equal. *)
(* Results are rounded to Precision significant bits, to nearest, ties to   *)
(* even; the magnitudes of the model are far from overflow and underflow.   *)

LimbBits == 11
Precision == 53

Pow2(k) == 2^k
Base == Pow2(LimbBits)

RECURSIVE Strip(_)
Strip(a) ==
    IF a = <<>> THEN a
    ELSE IF a[Len(a)] = 0 THEN Strip(SubSeq(a, 1, Len(a) - 1)) ELSE a

RECURSIVE Limbs(_)
Limbs(n) == IF n = 0 THEN <<>> ELSE <<n % Base>> \o Limbs(n \div Base)

LimbAt(a, i) == IF i <= Len(a) THEN a[i] ELSE 0
Rest(a) == IF a = <<>> THEN a ELSE Tail(a)

RECURSIVE LAddC(_, _, _)
LAddC(a, b, c) ==
    IF a = <<>> /\ b = <<>> THEN Limbs(c)
    ELSE LET s == LimbAt(a, 1) + LimbAt(b, 1) + c
         IN <<s % Base>> \o LAddC(Rest(a), Rest(b), s \div Base)

LAdd(a, b) == LAddC(a, b, 0)

\* a - b for a >= b
RECURSIVE LSubB(_, _, _)
LSubB(a, b, borrow) ==
    IF a = <<>> THEN <<>>
    ELSE LET s == a[1] - LimbAt(b, 1) - borrow
         IN <<(s + Base) % Base>> \o LSubB(Tail(a), Rest(b), IF s < 0 THEN 1 ELSE 0)

LSub(a, b) == Strip(LSubB(a, b, 0))

\* a * k for a single limb k
RECURSIVE LScaleC(_, _, _)
LScaleC(a, k, c) ==
    IF a = <<>> THEN Limbs(c)
    ELSE LET p == a[1] * k + c
         IN <<p % Base>> \o LScaleC(Tail(a), k, p \div Base)

LScale(a, k) == Strip(LScaleC(a, k, 0))

RECURSIVE LMul(_, _)
LMul(a, b) ==
    IF a = <<>> THEN <<>>
    ELSE LET hi == LMul(Tail(a), b)
         IN LAdd(LScale(b, a[1]), IF hi = <<>> THEN hi ELSE <<0>> \o hi)

RECURSIVE LLe(_, _)
LLe(a, b) ==
    IF Len(a) # Len(b) THEN Len(a) < Len(b)
    ELSE IF a = <<>> THEN TRUE
    ELSE IF a[Len(a)] # b[Len(b)] THEN a[Len(a)] < b[Len(b)]
    ELSE LLe(SubSeq(a, 1, Len(a) - 1), SubSeq(b, 1, Len(b) - 1))

\* Number of significant bits
BitLen(a) ==
    IF a = <<>> THEN 0
    ELSE (Len(a) - 1) * LimbBits
           + (CHOOSE k \in 1..LimbBits : Pow2(k - 1) <= a[Len(a)] /\ a[Len(a)] < Pow2(k))

\* Bit j (from 0) of a
Bit(a, j) == (LimbAt(a, (j \div LimbBits) + 1) \div Pow2(j % LimbBits)) % 2

\* a \div 2^k
ShiftRight(a, k) ==
    LET q == k \div LimbBits
        r == k % LimbBits
        n == Len(a) - q
    IN IF n <= 0 THEN <<>>
       ELSE Strip([i \in 1..n |-> (a[i + q] \div Pow2(r))
                                   + (LimbAt(a, i + q + 1) % Pow2(r)) * Pow2(LimbBits - r)])

\* a * 2^k
ShiftLeft(a, k) ==
    IF a = <<>> THEN a
    ELSE [i \in 1..(k \div LimbBits) |-> 0] \o LScale(a, Pow2(k % LimbBits))

\* Some bit of a below position k is set
AnyBelow(a, k) == \E j \in 0..(k - 1) : Bit(a, j) = 1

Number(neg, m, e) == [neg |-> neg, m |-> m, e |-> e]

\* The same number with m odd
Canon(x) ==
    IF x.m = <<>> THEN Number(FALSE, <<>>, 0)
    ELSE LET t == CHOOSE t \in 0..BitLen(x.m) :
                     Bit(x.m, t) = 1 /\ ~AnyBelow(x.m, t)
         IN Number(x.neg, ShiftRight(x.m, t), x.e + t)

\* The double nearest to the number x
RoundToDouble(x) ==
    LET n == BitLen(x.m) IN
    IF n <= Precision THEN Canon(x)
    ELSE LET k == n - Precision
             t == ShiftRight(x.m, k)
             up == Bit(x.m, k - 1) = 1 /\ (AnyBelow(x.m, k - 1) \/ Bit(t, 0) = 1)
         IN Canon(Number(x.neg, IF up THEN LAdd(t, <<1>>) ELSE t, x.e + k))

\* The exact product; the exact sum and difference of numbers that are not
\* negative (x >= y for the difference); x <= y for numbers that are not negative
ExactMul(x, y) == Number(x.neg # y.neg, LMul(x.m, y.m), x.e + y.e)

ExactAdd(x, y) ==
    LET e == Min(x.e, y.e)
    IN Number(FALSE, LAdd(ShiftLeft(x.m, x.e - e), ShiftLeft(y.m, y.e - e)), e)

ExactSub(x, y) ==
    LET e == Min(x.e, y.e)
    IN Number(FALSE, LSub(ShiftLeft(x.m, x.e - e), ShiftLeft(y.m, y.e - e)), e)

NumLe(x, y) ==
    LET e == Min(x.e, y.e)
    IN LLe(ShiftLeft(x.m, x.e - e), ShiftLeft(y.m, y.e - e))

\* Conversion of an integer to double (exact for the integers of the model)
FromInt(n) == Canon(Number(n < 0, Limbs(IF n < 0 THEN -n ELSE n), 0))

\* The double of the literal 0.1: 3602879701896397 * 2^-55
alpha == Number(FALSE, <<1229, 409, 819, 1638, 204>>, -55)

\* 1.0 - alpha
OneMinusAlpha == RoundToDouble(ExactSub(FromInt(1), alpha))

\* How the compiler evaluates a * b + c * d: both products rounded, or one of
\* them fused with the addition (a contraction the language allows)
Contractions == {"none", "first", "second"}

\* _smoothed_duration * (1.0 - alpha) + _last_call_duration * alpha
Blend(s, d, c) ==
    LET p == ExactMul(s, OneMinusAlpha)
        q == ExactMul(d, alpha)
    IN RoundToDouble(ExactAdd(IF c = "first" THEN p ELSE RoundToDouble(p),
                              IF c = "second" THEN q ELSE RoundToDouble(q)))
-----------------------------------------------------------------------------
(* CallStat and Timer.  The steady clock counts whole milliseconds, so that *)
(* duration_cast<ms>(...).count() is the difference of two readings.        *)

MaxTime == 13        \* last reading of the clock
MaxCalls == 2        \* completed calls of one record

\* What the clock advances by between two calls
TickSteps == {4, 9}

\* CallStat::CallStat; _last_call_start is a default time_point
NewCallStat ==
    [ _number_of_calls |-> 0,
      _total_duration |-> FromInt(0),
      _last_call_duration |-> FromInt(0),
      _smoothed_duration |-> FromInt(-1),
      _last_call_start |-> 0 ]

\* Mutant: the time since the last start is returned in both modes.
CallStat_getSmoothedDuration_Live(cs, t) == FromInt(t - cs._last_call_start)

\* CallStat::getSmoothedDuration at clock reading t
CallStat_getSmoothedDuration(cs, t) ==
    IF cs._smoothed_duration.neg
    THEN FromInt(t - cs._last_call_start)
    ELSE cs._smoothed_duration

\* Mutant: the weights of the old value and of the new duration are exchanged.
CallStat_calculateDuration_Swapped(cs, t, c) ==
    LET d == FromInt(t - cs._last_call_start)
        seeded == IF cs._smoothed_duration.neg THEN d ELSE cs._smoothed_duration
    IN [cs EXCEPT !._last_call_duration = d,
                  !._number_of_calls = @ + 1,
                  !._total_duration = RoundToDouble(ExactAdd(@, d)),
                  !._smoothed_duration = Blend(d, seeded, c),
                  !._last_call_start = t]

\* CallStat::calculateDuration at clock reading t
CallStat_calculateDuration(cs, t, c) ==
    LET d == FromInt(t - cs._last_call_start)
        seeded == IF cs._smoothed_duration.neg THEN d ELSE cs._smoothed_duration
    IN [cs EXCEPT !._last_call_duration = d,
                  !._number_of_calls = @ + 1,
                  !._total_duration = RoundToDouble(ExactAdd(@, d)),
                  !._smoothed_duration = Blend(seeded, d, c),
                  !._last_call_start = t]

\* CallStat::setStartTime
CallStat_setStartTime(cs, t) == [cs EXCEPT !._last_call_start = t]

\* _timers[name] of std::map: the record, inserted when it is missing
Inserted(timers, name) ==
    [n \in DOMAIN timers \cup {name} |-> IF n \in DOMAIN timers THEN timers[n] ELSE NewCallStat]

\* Mutant: start replaces the record of a known name by a new one.
Timer_start_Recreating(timers, name, t) ==
    [Inserted(timers, name) EXCEPT ![name] = CallStat_setStartTime(NewCallStat, t)]

\* Timer::start
Timer_start(timers, name, t) ==
    [Inserted(timers, name) EXCEPT ![name] = CallStat_setStartTime(@, t)]

\* Mutant: a missing record is created.
Timer_at_Inserting(timers, name) == [err |-> "none", timers |-> Inserted(timers, name)]

\* Timer::operator[]
Timer_at(timers, name) ==
    IF name \notin DOMAIN timers
    THEN [err |-> "logic_error", timers |-> timers]
    ELSE [err |-> "none", timers |-> timers]

\* Timer::finish
Timer_finish(timers, name, t, c) ==
    LET r == Timer_at(timers, name) IN
    IF r.err # "none" THEN r
    ELSE [r EXCEPT !.timers = [r.timers EXCEPT ![name] = CallStat_calculateDuration(@, t, c)]]

TimerInit ==
    /\ detector = NewDetector("FD", "", 1, FALSE, FALSE, FALSE, 0)
    /\ model = NoFile
    /\ inputBlob = <<>>
    /\ outputBlob = <<>>
    /\ labelsBlob = <<>>
    /\ busy = FALSE
    /\ lastBatch = 0
    /\ lastOp = "constructor"
    /\ lastArg = ""
    /\ lastErr = "none"
    /\ lastRet = FromInt(0)
    /\ opCalls = <<>>
    /\ opReads = <<>>
    /\ opWrites = <<>>
    /\ disabledLogs = 0
    /\ resultsOfLastRun = FALSE
    /\ acceptedFaces = <<>>
    /\ _timers = NoTimers
    /\ finished = NoCalls
    /\ now = 0

\* What a call on the timer records
ObserveTimer(op, name, err) ==
    /\ lastOp' = op
    /\ lastArg' = name
    /\ lastErr' = err
    /\ UNCHANGED <<detector, model, inputBlob, outputBlob, labelsBlob, busy, lastBatch,
                   opCalls, opReads, opWrites, disabledLogs, resultsOfLastRun, acceptedFaces, now>>

\* Time passes
Tick ==
    /\ \E dt \in TickSteps :
         /\ now + dt <= MaxTime
         /\ now' = now + dt
    /\ UNCHANGED <<detector, model, inputBlob, outputBlob, labelsBlob, busy, lastBatch,
                   lastOp, lastArg, lastErr, lastRet, opCalls, opReads, opWrites,
                   disabledLogs, resultsOfLastRun, acceptedFaces, _timers, finished>>

\* timer.start(name)
Start ==
    \E name \in Stages :
       /\ _timers' = Timer_start(_timers, name, now)
       /\ ObserveTimer("start", name, "none")
       /\ UNCHANGED lastRet
       /\ finished' = [finished EXCEPT ![name].at = now, ![name].again = FALSE]

\* timer.finish(name)
Finish ==
    \E name \in Stages :
       /\ name \in DOMAIN _timers => _timers[name]._number_of_calls < MaxCalls
       /\ ObserveTimer("finish", name, Timer_at(_timers, name).err)
       /\ UNCHANGED lastRet
       /\ \E c \in Contractions : _timers' = Timer_finish(_timers, name, now, c).timers
       /\ finished' =
            IF Timer_at(_timers, name).err = "none"
            THEN [finished EXCEPT ![name] =
                    [ durations |-> Append(@.durations, _timers'[name]._last_call_duration),
                      at |-> now,
                      again |-> (lastOp = "finish" /\ lastArg = name /\ lastErr = "none") ]]
            ELSE finished

\* timer[name].getSmoothedDuration()
GetSmoothedDuration ==
    \E name \in Stages :
       LET r == Timer_at(_timers, name) IN
       /\ _timers' = r.timers
       /\ UNCHANGED finished
       /\ ObserveTimer("getSmoothedDuration", name, r.err)
       /\ IF r.err = "none"
          THEN lastRet' = CallStat_getSmoothedDuration(r.timers[name], now)
          ELSE UNCHANGED lastRet

TimerNext ==
    \/ Tick
    \/ Start
    \/ Finish
    \/ GetSmoothedDuration

TimerSpec == TimerInit /\ [][TimerNext]_vars

-----------------------------------------------------------------------------
(* C15 *)

\* C15: a record exists for a name only once start was called on it, and
\* finish(name) for a name without a record fails with the logic_error "No
\* timer with name ..." and leaves the tracker as it was: no record is created
\* and none is modified.
C15_FinishUnknownStage ==
    /\ [][\A name \in Stages :
            (name \in DOMAIN _timers' /\ name \notin DOMAIN _timers)
              => (Start /\ lastArg' = name)]_vars
    /\ [][\A name \in Stages :
            (lastArg' = name /\ name \notin DOMAIN _timers /\ Finish)
              => (lastErr' = "logic_error" /\ _timers' = _timers)]_vars

\* finish has failed for a name never started while the other stage has a
\* record with a completed call.
C15_Witness ==
    /\ lastOp = "finish"
    /\ lastErr = "logic_error"
    /\ lastArg \notin DOMAIN _timers
    /\ \E other \in DOMAIN _timers : _timers[other]._number_of_calls = 1

-----------------------------------------------------------------------------
(* C16 *)

\* |x - y| and x * 2^k, exactly
AbsDiff(x, y) == IF NumLe(x, y) THEN ExactSub(y, x) ELSE ExactSub(x, y)
Scaled(x, k) == Number(x.neg, x.m, IF x.m = <<>> THEN 0 ELSE x.e + k)

\* x is y up to the relative error 2^-k
Within(x, y, k) == NumLe(Scaled(AbsDiff(x, y), k), y)

\* finish(name) completes call number n of the record
Finishes(name, n) ==
    /\ lastArg' = name
    /\ lastErr' = "none"
    /\ name \in DOMAIN _timers'
    /\ _timers'[name]._number_of_calls = n
    /\ Finish

\* C16 as stated: the first finish stores exactly the raw duration d1, and
\* every later finish stores 0.9 * smoothed + 0.1 * d as the code evaluates it.
C16_FirstFinishExact ==
    [][\A name \in Stages :
         /\ Finishes(name, 1)
              => _timers'[name]._smoothed_duration = _timers'[name]._last_call_duration
         /\ (\E n \in 2..MaxCalls : Finishes(name, n))
              => \E c \in Contractions :
                    _timers'[name]._smoothed_duration
                      = Blend(_timers[name]._smoothed_duration,
                              _timers'[name]._last_call_duration, c)]_vars

\* C16 (amended): the first finish with raw duration d1 stores
\* d1 * (1.0 - 0.1) + d1 * 0.1 computed in double arithmetic, which is d1 up to
\* a relative error of 2^-52 and not always d1; every later finish with raw
\* duration d stores smoothed * (1.0 - 0.1) + d * 0.1 computed in double
\* arithmetic, and the second finish yields 0.9 * d1 + 0.1 * d2 up to a
\* relative error of 2^-51.
C16_EmaUpToRounding ==
    [][\A name \in Stages :
         /\ Finishes(name, 1)
              => LET d1 == _timers'[name]._last_call_duration
                     s == _timers'[name]._smoothed_duration
                 IN /\ \E c \in Contractions : s = Blend(d1, d1, c)
                    /\ Within(s, d1, 52)
         /\ (\E n \in 2..MaxCalls : Finishes(name, n))
              => \E c \in Contractions :
                    _timers'[name]._smoothed_duration
                      = Blend(_timers[name]._smoothed_duration,
                              _timers'[name]._last_call_duration, c)
         /\ Finishes(name, 2)
              => LET d1 == _timers[name]._last_call_duration
                     d2 == _timers'[name]._last_call_duration
                 IN Within(ExactMul(FromInt(10), _timers'[name]._smoothed_duration),
                           ExactAdd(ExactMul(FromInt(9), d1), d2), 51)]_vars

\* The first finish of a stage took 13 ms and the smoothed duration stored is
\* not 13.
C16_Witness ==
    /\ lastOp = "finish"
    /\ lastErr = "none"
    /\ lastArg \in DOMAIN _timers
    /\ _timers[lastArg]._number_of_calls = 1
    /\ _timers[lastArg]._last_call_duration = FromInt(13)
    /\ _timers[lastArg]._smoothed_duration # FromInt(13)
    /\ Within(_timers[lastArg]._smoothed_duration, FromInt(13), 52)

-----------------------------------------------------------------------------
(* C17 *)

\* C17: a record has the negative sentinel exactly while no finish has
\* completed on it, and its last start is never later than the clock.  A query
\* on a record with the sentinel returns the time between the last start and
\* the query, a value >= 0 that follows the clock, and stores nothing; a query
\* on a record with a completed finish returns the stored smoothed duration,
\* which start does not change.
C17_SmoothedDurationModes ==
    /\ [](\A name \in DOMAIN _timers :
            /\ _timers[name]._smoothed_duration.neg <=> _timers[name]._number_of_calls = 0
            /\ _timers[name]._last_call_start <= now)
    /\ [][\A name \in DOMAIN _timers :
            (lastArg' = name /\ GetSmoothedDuration)
              => /\ lastErr' = "none"
                 /\ _timers' = _timers
                 /\ ~lastRet'.neg
                 /\ lastRet' = IF _timers[name]._number_of_calls = 0
                               THEN FromInt(now - _timers[name]._last_call_start)
                               ELSE _timers[name]._smoothed_duration]_vars
    /\ [][\A name \in DOMAIN _timers :
            Start => _timers'[name]._smoothed_duration = _timers[name]._smoothed_duration]_vars

\* A stage started 13 ms ago and never finished was queried: 13 was returned.
C17_Witness ==
    /\ lastOp = "getSmoothedDuration"
    /\ lastErr = "none"
    /\ lastArg \in DOMAIN _timers
    /\ _timers[lastArg]._number_of_calls = 0
    /\ now - _timers[lastArg]._last_call_start = 13
    /\ lastRet = FromInt(13)

-----------------------------------------------------------------------------
(* C21 *)

\* C21: the result list of the face detector holds proposals of the output
\* tensor in increasing proposal index, each at most once: every detection
\* fetchResults emits carries the confidence of its proposal, and the proposal
\* indexes along the list are strictly increasing.
C21_OutputOrderKept ==
    /\ [](IsFD => \A k \in 1..(Len(detector.results) - 1) :
                     detector.results[k].row < detector.results[k + 1].row)
    /\ [][FetchResults =>
            \A k \in 1..Len(detector'.results) :
               /\ detector'.results[k].row \in 0..(detector.maxProposalCount - 1)
               /\ detector'.results[k].confidence
                    = At(outputBlob, detector'.results[k].row * detector.objectSize
                                       + ConfidenceAt(detector))]_vars

\* Two proposals of a 7-wide tensor were emitted, proposal 0 before proposal 1.
C21_Witness ==
    /\ IsFD
    /\ lastOp = "fetchResults"
    /\ detector.objectSize = 7
    /\ Len(detector.results) = 2
    /\ detector.results[1].row = 0
    /\ detector.results[2].row = 1

-----------------------------------------------------------------------------
(* C22 *)

\* C22: in a face analytics stage the faces accepted since the last run fill
\* the input slots from 0 on, in the order they were enqueued: the k-th of them
\* is in slot k - 1; an accepted face is written to the slot after those, and
\* to no other; an enqueue on a full batch writes no slot; and after a
\* submitRequest that ran the request no face counts as accepted, so the next
\* one goes to slot 0.
C22_SlotsInEnqueueOrder ==
    /\ [](IsSecondary =>
            /\ Len(acceptedFaces) <= detector.maxBatch
            /\ \A k \in 1..Len(acceptedFaces) : inputBlob[k] = acceptedFaces[k])
    /\ [][(Enqueue /\ IsSecondary /\ opWrites' # <<>>)
            => /\ opWrites' = <<Len(acceptedFaces), lastArg'>>
               /\ acceptedFaces' = Append(acceptedFaces, lastArg')
               /\ \A k \in 1..Len(inputBlob') :
                     k # Len(acceptedFaces) + 1 /\ k <= Len(inputBlob)
                       => inputBlob'[k] = inputBlob[k]]_vars
    /\ [][(Enqueue /\ IsSecondary /\ Len(acceptedFaces) = detector.maxBatch)
            => (opWrites' = <<>> /\ inputBlob' = inputBlob)]_vars
    /\ [][(Submit /\ IsSecondary /\ Ran(opCalls')) => acceptedFaces' = <<>>]_vars

\* After a run of a batch of two, face 2 and then face 1 were accepted and are
\* in slots 0 and 1.
C22_Witness ==
    /\ IsSecondary
    /\ lastOp = "enqueue"
    /\ lastBatch = 2
    /\ acceptedFaces = <<2, 1>>
    /\ inputBlob = <<2, 1>>
    /\ opWrites = <<1, 1>>

-----------------------------------------------------------------------------
(* C23 *)

\* operator[] of the landmarks stage has returned a vector
LandmarksDecoded ==
    /\ KindOf(detector) = "LM"
    /\ lastOp = "operator[]"
    /\ lastErr = "none"

\* Channel count of the landmarks tensor
LandmarksChannels ==
    getTensorChannels(OutputNamed(model, detector.outputFacialLandmarksBlobName))

-----------------------------------------------------------------------------
(* C24 *)

\* The call has asked the engine to resize the batch
Resizes(calls) == \E i \in 1..Len(calls) : calls[i] \in SetBatchCalls

\* C24: whatever device name and enable flag a Load::into that loads the
\* network was called with, it asks for dynamic batching exactly when the flag
\* is set and the device name contains "CPU" or "GPU"; and a submitRequest
\* resizes the batch only on a request of a network that was loaded with
\* dynamic batching.
C24_ResizeOnlyIfDynamic ==
    /\ [][(lastOp' = "Load::into" /\ lastErr' = "none" /\ detector'.net.loaded)
            => \A deviceName \in Devices, enable_dynamic_batch \in BOOLEAN,
                  g \in (IF ReadIsUndefined(detector, model) THEN UBChoices ELSE {NoUB}) :
                 LET r == Load_into(detector, model, deviceName, enable_dynamic_batch, g) IN
                 (r.err = "none" /\ r.d = detector')
                   => detector'.net.dynBatch
                        = (enable_dynamic_batch /\ isPossibleDynBatch(deviceName))]_vars
    /\ [][(Submit /\ Resizes(opCalls')) => detector.net.dynBatch]_vars

-----------------------------------------------------------------------------
(* C25 *)

\* C25: the Face Detection stage decodes the output tensor at most once for
\* each submitted frame.  A submitRequest that has a frame marks the results
\* as not fetched; the fetchResults that follows a run asks the request for the
\* output tensor, reads it, and marks the results as fetched; a fetchResults
\* on results marked as fetched asks for no tensor, reads none and leaves the
\* list empty; and only a submitRequest that has a frame removes the mark.
C25_DecodedOncePerFrame ==
    /\ [][(lastOp' = "submitRequest" /\ IsFD /\ detector.enquedFrames > 0 /\ Submit)
            => (~detector'.resultsFetched /\ detector'.results = <<>>)]_vars
    /\ [][(lastOp' = "fetchResults" /\ ~detector.resultsFetched /\ lastBatch > 0
             /\ FetchResults)
            => /\ lastErr' = "none"
               /\ opCalls' # <<>> /\ opCalls'[1] = "GetBlob"
               /\ opReads' # <<>>
               /\ detector'.resultsFetched
               /\ detector'.results = Loop7(detector', outputBlob, 0,
                                            IF detector.labels_output # ""
                                            THEN Loop5(detector', outputBlob, labelsBlob, 0, <<>>)
                                            ELSE <<>>)]_vars
    /\ [][(lastOp' = "fetchResults" /\ detector.resultsFetched /\ FetchResults)
            => /\ opCalls' = <<>>
               /\ opReads' = <<>>
               /\ detector'.results = <<>>
               /\ detector'.resultsFetched]_vars
    /\ [][(detector.resultsFetched /\ ~detector'.resultsFetched)
            => (lastOp' = "submitRequest" /\ detector.enquedFrames > 0)]_vars

\* A frame was run and its tensor, which holds detections, was decoded; the
\* fetchResults called after that read nothing and left the list empty.
C25_Witness ==
    /\ IsFD
    /\ lastOp = "fetchResults"
    /\ lastBatch > 0
    /\ ~busy
    /\ detector.resultsFetched
    /\ opCalls = <<>>
    /\ opReads = <<>>
    /\ detector.results = <<>>
    /\ Loop7(detector, outputBlob, 0, <<>>) # <<>>

-----------------------------------------------------------------------------
(* C26 *)

\* The exact sum of a sequence of durations
RECURSIVE SumOf(_)
SumOf(ds) ==
    IF ds = <<>> THEN FromInt(0)
    ELSE ExactAdd(SumOf(SubSeq(ds, 1, Len(ds) - 1)), ds[Len(ds)])

\* C26: in every state a name without a record has had no successful finish,
\* and the record of a name counts the successful finish calls made on that
\* name and its total duration is the sum of the last-call durations those
\* calls recorded.  A start on a name that has a record changes the start
\* time of that record and nothing else of the Timer.  A successful finish
\* records as the last-call duration the time since the last start or
\* successful finish on the name, whichever came later, and takes its own time
\* as the new start time: a finish that follows a finish measures from the
\* previous finish.
C26_CountAndTotal ==
    /\ [](\A name \in Stages :
            IF name \in DOMAIN _timers
            THEN /\ _timers[name]._number_of_calls = Len(finished[name].durations)
                 /\ _timers[name]._total_duration
                      = RoundToDouble(SumOf(finished[name].durations))
                 /\ _timers[name]._last_call_start = finished[name].at
            ELSE finished[name].durations = <<>>)
    /\ [][\A name \in DOMAIN _timers :
            (lastOp' = "start" /\ lastArg' = name /\ Start)
              => _timers' = [_timers EXCEPT ![name]._last_call_start = now]]_vars
    /\ [][\A name \in DOMAIN _timers :
            (lastOp' = "finish" /\ lastArg' = name /\ Finish)
              => /\ lastErr' = "none"
                 /\ _timers'[name]._last_call_duration = FromInt(now - finished[name].at)
                 /\ _timers'[name]._last_call_start = now
                 /\ _timers'[name]._number_of_calls = _timers[name]._number_of_calls + 1
                 /\ \A other \in DOMAIN _timers \ {name} : _timers'[other] = _timers[other]
                 /\ DOMAIN _timers' = DOMAIN _timers]_vars

\* A start, 4 ticks, a finish, 9 ticks and a second finish straight after the
\* first: the record counts 2 calls, the second measured the 9 ticks since the
\* first, and the total is 13.
C26_Witness ==
    \E name \in DOMAIN _timers :
       /\ finished[name].again
       /\ finished[name].durations = <<FromInt(4), FromInt(9)>>
       /\ _timers[name]._number_of_calls = 2
       /\ _timers[name]._last_call_duration = FromInt(9)
       /\ _timers[name]._total_duration = FromInt(13)

====
